---- MODULE Spec2Model ----
(***************************************************************************)
(* A model of the NukeKV server engine (src/server.cpp): the store with    *)
(* its TTL map, LRU structures, memory estimate and dirty counter, the     *)
(* command handlers, the worker pool with its task queue, the per          *)
(* connection loop, the background manager and the snapshot file.          *)
(*                                                                         *)
(* std::string is modelled by TLA+ strings; positions are 0-based as in    *)
(* the source, and npos is -1.                                             *)
(***************************************************************************)
EXTENDS Integers, Sequences, FiniteSets, TLC

\* ------------------------------------------------------------------ bounds
\* Sockets the accept loop may hand to handle_client.
NumConns == 2
\* Worker threads the constructor may start.
NumWorkers == 2
\* Frames one connection sends before it stops sending.
MaxCmds == 2
\* Clock ticks (of one second) the model follows.
MaxTicks == 3
\* Frames the connection of the eviction scenario sends.
LruCmds == 5
\* The memory limit of the eviction scenario in units of 2^26 bytes, which
\* is 1 GiB (MAX_RAM_GB = 1): three pairs of 5 units fit, four do not.
LruLimit == 16
\* Frames the connection of the DEL, INCR/DECR and JSON scenarios sends.
SeqCmds == 3

Conns == 1..NumConns
Workers == 1..NumWorkers

\* --------------------------------------------------- std::string operations
npos == -1

Min(S) == CHOOSE x \in S : \A y \in S : x <= y
Max(S) == CHOOSE x \in S : \A y \in S : x >= y

\* s[i], 0-based
At(s, i) == SubSeq(s, i + 1, i + 1)

\* s.substr(pos): the rest of the string from pos
substr_from(s, pos) == SubSeq(s, pos + 1, Len(s))

\* s.substr(pos, n): n is a size_t, so a negative count wraps to a huge one
\* and the rest of the string is taken
substr(s, pos, n) ==
    IF n < 0 \/ pos + n > Len(s) THEN SubSeq(s, pos + 1, Len(s))
    ELSE SubSeq(s, pos + 1, pos + n)

\* s.find(c, pos) for a single character c
find(s, c, pos) ==
    LET hits == {i \in pos..(Len(s) - 1) : At(s, i) = c}
    IN IF hits = {} THEN npos ELSE Min(hits)

\* s.rfind(pat)
rfind(s, pat) ==
    LET hits == {i \in 0..(Len(s) - Len(pat)) : SubSeq(s, i + 1, i + Len(pat)) = pat}
    IN IF hits = {} THEN npos ELSE Max(hits)

\* s.find_first_not_of(" \t", pos)
find_first_not_of_blank(s, pos) ==
    LET hits == {i \in pos..(Len(s) - 1) : At(s, i) \notin {" ", "\t"}}
    IN IF hits = {} THEN npos ELSE Min(hits)

LowerChars == "abcdefghijklmnopqrstuvwxyz"
UpperChars == "ABCDEFGHIJKLMNOPQRSTUVWXYZ"

\* ::toupper on one character (ASCII)
toupper_char(c) ==
    LET hits == {i \in 1..26 : SubSeq(LowerChars, i, i) = c}
    IN IF hits = {} THEN c ELSE LET i == Min(hits) IN SubSeq(UpperChars, i, i)

\* ::tolower on one character (ASCII)
tolower_char(c) ==
    LET hits == {i \in 1..26 : SubSeq(UpperChars, i, i) = c}
    IN IF hits = {} THEN c ELSE LET i == Min(hits) IN SubSeq(LowerChars, i, i)

RECURSIVE toupper(_)
\* std::transform(s.begin(), s.end(), s.begin(), ::toupper)
toupper(s) == IF s = "" THEN "" ELSE toupper_char(At(s, 0)) \o toupper(Tail(s))

RECURSIVE tolower(_)
\* std::transform(s.begin(), s.end(), s.begin(), ::tolower)
tolower(s) == IF s = "" THEN "" ELSE tolower_char(At(s, 0)) \o tolower(Tail(s))

\* isspace in the "C" locale
isspace(c) == c \in {" ", "\t", "\n", "\r", "\f"}

Digits == "0123456789"

isdigit(c) == \E i \in 1..10 : SubSeq(Digits, i, i) = c

DigitVal(c) == Min({i \in 1..10 : SubSeq(Digits, i, i) = c}) - 1

RECURSIVE DigitRun(_, _)
\* the number of leading decimal digits of s from position i
DigitRun(s, i) == IF i < Len(s) /\ isdigit(At(s, i)) THEN 1 + DigitRun(s, i + 1) ELSE 0

RECURSIVE DigitsValue(_, _, _)
\* the value of the n digits of s that start at position i
DigitsValue(s, i, n) ==
    IF n = 0 THEN 0 ELSE DigitsValue(s, i, n - 1) * 10 + DigitVal(At(s, i + n - 1))

RECURSIVE SkipSpace(_, _)
SkipSpace(s, i) == IF i < Len(s) /\ isspace(At(s, i)) THEN SkipSpace(s, i + 1) ELSE i

\* std::stoll(s): leading white space is skipped, an optional sign is read,
\* then the longest run of digits; what follows the digits is ignored.
\* ok is FALSE where stoll throws std::invalid_argument (no digits).
stoll(s) ==
    LET i == SkipSpace(s, 0)
        signed == i < Len(s) /\ At(s, i) \in {"+", "-"}
        neg == signed /\ At(s, i) = "-"
        j == IF signed THEN i + 1 ELSE i
        n == DigitRun(s, j)
    IN IF n = 0 THEN [ok |-> FALSE, val |-> 0]
       ELSE [ok |-> TRUE, val |-> IF neg THEN 0 - DigitsValue(s, j, n) ELSE DigitsValue(s, j, n)]

RECURSIVE NatToString(_)
NatToString(n) ==
    IF n < 10 THEN SubSeq(Digits, n + 1, n + 1)
    ELSE NatToString(n \div 10) \o SubSeq(Digits, (n % 10) + 1, (n % 10) + 1)

\* std::to_string(long long)
to_string(n) == IF n < 0 THEN "-" \o NatToString(0 - n) ELSE NatToString(n)

\* ------------------------------------------------------ parse_command_line
RECURSIVE Tokenize(_, _, _, _, _)
\* the loop of the general branch: i is the position, current_arg the token
\* being collected, quote_type the open quote ("" for none)
Tokenize(line, i, current_arg, quote_type, args) ==
    IF i >= Len(line)
    THEN IF current_arg # "" THEN Append(args, current_arg) ELSE args
    ELSE LET c == At(line, i) IN
         IF quote_type = "" /\ c \in {"'", "\""}
         THEN Tokenize(line, i + 1, "", c,
                       IF current_arg # "" THEN Append(args, current_arg) ELSE args)
         ELSE IF c = quote_type
         THEN Tokenize(line, i + 1, current_arg, "", args)
         ELSE IF quote_type = "" /\ isspace(c)
         THEN Tokenize(line, i + 1, "", quote_type,
                       IF current_arg # "" THEN Append(args, current_arg) ELSE args)
         ELSE Tokenize(line, i + 1, current_arg \o c, quote_type, args)

\* the lambda transform_keywords
transform_keywords(s) ==
    IF tolower(s) = "where" THEN "WHERE"
    ELSE IF tolower(s) = "set" THEN "SET"
    ELSE s

\* the quote a command requires around its value ("" for none)
required_quote(command_upper) ==
    IF command_upper \in {"SET", "UPDATE"} THEN "\""
    ELSE IF command_upper \in {"JSON.SET", "JSON.APPEND"} THEN "'"
    ELSE ""

\* the branch of the commands whose value must be quoted
ParseQuoted(line, command, cmd_end, rq) ==
    IF cmd_end = npos THEN <<command>>
    ELSE LET key_start == cmd_end + 1
             value_divider_pos == find(line, " ", key_start)
         IN IF value_divider_pos = npos THEN <<command, substr_from(line, key_start)>>
            ELSE LET key == substr(line, key_start, value_divider_pos - key_start)
                     value_start == find_first_not_of_blank(line, value_divider_pos)
                     ex_pos == rfind(line, " EX ")
                 IN IF ex_pos # npos /\ ex_pos > value_divider_pos
                    THEN IF At(line, value_start) # rq \/ ex_pos < value_start
                            \/ At(line, ex_pos - 1) # rq
                         THEN <<command>>
                         ELSE <<command, key,
                                substr(line, value_start + 1, ex_pos - value_start - 2),
                                "EX", substr_from(line, ex_pos + 4)>>
                    ELSE IF value_start = npos \/ At(line, value_start) # rq
                            \/ At(line, Len(line) - 1) # rq
                         THEN <<command>>
                         ELSE <<command, key,
                                substr(line, value_start + 1, Len(line) - value_start - 2)>>

\* parse_command_line: the argument vector of a command line, the command
\* itself first. In the general branch the loop starts at cmd_end + 1, which
\* is 0 when the line holds no space (npos + 1 wraps to 0).
parse_command_line(line) ==
    IF line = "" THEN <<>>
    ELSE LET cmd_end == find(line, " ", 0)
             command == IF cmd_end = npos THEN line ELSE substr(line, 0, cmd_end)
             command_upper == toupper(command)
             rq == required_quote(command_upper)
         IN IF rq # "" THEN ParseQuoted(line, command, cmd_end, rq)
            ELSE LET args == Tokenize(line, cmd_end + 1, "", "", <<command>>)
                 IN IF command_upper \in {"JSON.UPDATE", "JSON.GET"}
                    THEN [i \in 1..Len(args) |->
                            IF i = 1 THEN args[i] ELSE transform_keywords(args[i])]
                    ELSE args


\* ------------------------------------------------------------------- state
VARIABLES
    db,                     \* the data members of NukeKV and the snapshot file
    max_memory_bytes_,      \* NukeKV::max_memory_bytes_, set by the constructor
    BATCH_PROCESSING_SIZE,  \* the global of that name
    disk_ok,                \* whether std::ofstream can open the snapshot file
    now_ms,                 \* system_clock::now() in milliseconds
    data_mutex_,            \* the std::shared_mutex: its writer and its readers
    queue_mutex_,           \* the std::mutex of the task queue: its holder
    task_queue_,            \* std::queue<Task>
    stop_all_,              \* std::atomic<bool> stop_all_
    worker,                 \* each worker thread's position and locals
    conn,                   \* each handle_client thread's position and locals
    bg,                     \* the background manager thread's position
    main_pc                 \* the main thread: serving, or in ~NukeKV

vars == <<db, max_memory_bytes_, BATCH_PROCESSING_SIZE, disk_ok, now_ms, data_mutex_,
          queue_mutex_, task_queue_, stop_all_, worker, conn, bg, main_pc>>

\* the globals PERSISTENCE_ENABLED and CACHING_ENABLED, never assigned
PERSISTENCE_ENABLED == TRUE
CACHING_ENABLED == TRUE

\* std::chrono::seconds to milliseconds
MsPerSecond == 1000

\* ----------------------------------------------------- maps and the result
\* m[k] = v on a std::unordered_map
MapPut(m, k, v) == [x \in (DOMAIN m) \cup {k} |-> IF x = k THEN v ELSE m[x]]

\* m.erase(k)
MapErase(m, k) == [x \in (DOMAIN m) \ {k} |-> m[x]]

EmptyMap == [x \in {} |-> ""]

\* HandlerResult, a std::pair<int, std::string>
Result(code, text) == [code |-> code, text |-> text]

\* the file system holds no snapshot file
NoFile == [present |-> FALSE, damage |-> "none", store |-> {}, ttl |-> {}]

\* the members of a freshly constructed NukeKV, beside a given file
FreshDb(file) ==
    [kv_store_ |-> EmptyMap, ttl_map_ |-> EmptyMap, lru_list_ |-> <<>>, lru_map_ |-> {},
     estimated_memory_usage_ |-> 0, dirty_operations_ |-> 0, file |-> file]

RECURSIVE ListErase(_, _)
\* lru_list_.erase(lru_map_[key]): the node of key leaves the list
ListErase(list, key) ==
    IF list = <<>> THEN <<>>
    ELSE IF Head(list) = key THEN Tail(list)
    ELSE <<Head(list)>> \o ListErase(Tail(list), key)

\* ------------------------------------------------------------- store core
_update_lru(s, key) ==
    IF ~CACHING_ENABLED \/ max_memory_bytes_ = 0 THEN s
    ELSE [s EXCEPT !.lru_list_ = <<key>> \o (IF key \in s.lru_map_ THEN ListErase(@, key) ELSE @),
                   !.lru_map_ = @ \cup {key}]

RECURSIVE EvictLoopKeepDeadline(_)
\* an eviction loop that leaves the deadline of the evicted key in ttl_map_
EvictLoopKeepDeadline(s) ==
    IF s.estimated_memory_usage_ > max_memory_bytes_ /\ s.lru_list_ # <<>>
    THEN LET key_to_evict == s.lru_list_[Len(s.lru_list_)]
         IN EvictLoopKeepDeadline([s EXCEPT !.lru_list_ = SubSeq(@, 1, Len(@) - 1),
                                            !.kv_store_ = MapErase(@, key_to_evict),
                                            !.lru_map_ = @ \ {key_to_evict}])
    ELSE s

RECURSIVE EvictLoop(_)
\* the while loop of _enforce_memory_limit: the estimate is compared on every
\* round and is not changed by the loop body
EvictLoop(s) ==
    IF s.estimated_memory_usage_ > max_memory_bytes_ /\ s.lru_list_ # <<>>
    THEN LET key_to_evict == s.lru_list_[Len(s.lru_list_)]
         IN EvictLoop([s EXCEPT !.lru_list_ = SubSeq(@, 1, Len(@) - 1),
                                !.kv_store_ = MapErase(@, key_to_evict),
                                !.ttl_map_ = MapErase(@, key_to_evict),
                                !.lru_map_ = @ \ {key_to_evict}])
    ELSE s

_enforce_memory_limit(s) ==
    IF ~CACHING_ENABLED \/ max_memory_bytes_ = 0 THEN s ELSE EvictLoop(s)

\* json(kv_store_) and json(ttl_map_): the object's members as key/value pairs
Dump(s) ==
    [present |-> TRUE, damage |-> "none",
     store |-> {<<k, s.kv_store_[k]>> : k \in DOMAIN s.kv_store_},
     ttl |-> {<<k, s.ttl_map_[k]>> : k \in DOMAIN s.ttl_map_}]

\* json::get<std::unordered_map<...>>(): the map of an object's members
Undump(pairs) == [k \in {p[1] : p \in pairs} |-> (CHOOSE p \in pairs : p[1] = k)[2]]

\* _save_to_file_unlocked(DATABASE_FILENAME): the file is written when it
\* could be opened; the dirty counter is reset in either case
_save_to_file_unlocked(s) ==
    IF ~PERSISTENCE_ENABLED THEN s
    ELSE [s EXCEPT !.file = IF disk_ok THEN Dump(s) ELSE @,
                   !.dirty_operations_ = 0]

\* a write handler that saves whatever the batch size is
SaveAlways(s) == _save_to_file_unlocked(s)

\* if (BATCH_PROCESSING_SIZE.load() == 0) _save_to_file_unlocked(...)
SaveIfWriteThrough(s) == IF BATCH_PROCESSING_SIZE = 0 THEN _save_to_file_unlocked(s) ELSE s


\* ---------------------------------------------------------------- handlers
\* Each handler maps the store and the arguments (the command removed) to the
\* store it leaves and the HandlerResult it returns.
Ret(s, code, text) == [db |-> s, res |-> Result(code, text)]

PairSize(s, key) == Len(key) + Len(s.kv_store_[key])

_handle_set(s, args) ==
    IF Len(args) # 2 /\ Len(args) # 4
    THEN Ret(s, 400, "-ERR wrong number of arguments for 'SET'. Expected: SET <key> \"<value>\" [EX <seconds>]")
    ELSE LET key == args[1]
             value == args[2]
             old_size == IF key \in DOMAIN s.kv_store_ THEN PairSize(s, key) ELSE 0
             s1 == _update_lru([s EXCEPT !.kv_store_ = MapPut(@, key, value),
                                         !.estimated_memory_usage_ =
                                             @ + (Len(key) + Len(value)) - old_size], key)
             ttl_s == IF Len(args) = 4 THEN stoll(args[4]) ELSE [ok |-> TRUE, val |-> 0]
             s2 == IF Len(args) = 4
                   THEN IF toupper(args[3]) = "EX"
                        THEN [s1 EXCEPT !.ttl_map_ = MapPut(@, key, now_ms + ttl_s.val * MsPerSecond)]
                        ELSE s1
                   ELSE [s1 EXCEPT !.ttl_map_ = MapErase(@, key)]
             s3 == SaveIfWriteThrough([s2 EXCEPT !.dirty_operations_ = @ + 1])
         IN IF Len(args) = 4 /\ toupper(args[3]) = "EX" /\ ~ttl_s.ok
            THEN Ret(s1, 400, "-ERR value is not an integer")
            ELSE Ret(_enforce_memory_limit(s3), 200, "+OK")

\* the block of _handle_get under the shared lock
_handle_get_lookup(s, args) ==
    LET key == args[1]
    IN IF key \notin DOMAIN s.kv_store_
       THEN [found |-> FALSE, result_value |-> ""]
       ELSE [found |-> TRUE, result_value |-> s.kv_store_[key]]

\* the block of _handle_get under the exclusive lock, and its return
_handle_get_promote(s, args, result_value) ==
    LET key == args[1]
    IN IF key \notin DOMAIN s.kv_store_ THEN Ret(s, 404, "(nil)")
       ELSE Ret(_update_lru(s, key), 200, result_value)

_handle_update(s, args) ==
    IF Len(args) # 2
    THEN Ret(s, 400, "-ERR wrong number of arguments for 'UPDATE'. Expected: UPDATE <key> \"<value>\"")
    ELSE IF args[1] \notin DOMAIN s.kv_store_ THEN Ret(s, 404, "(nil)")
    ELSE LET key == args[1]
             value == args[2]
             old_size == PairSize(s, key)
             s1 == _update_lru([s EXCEPT !.kv_store_ = MapPut(@, key, value),
                                         !.estimated_memory_usage_ =
                                             @ + (Len(key) + Len(value)) - old_size], key)
             s2 == _enforce_memory_limit([s1 EXCEPT !.dirty_operations_ = @ + 1])
         IN Ret(SaveIfWriteThrough(s2), 200, "+OK")

\* a loop body that leaves the deadline of the key in ttl_map_
DelOneKeepDeadline(s, key) ==
    [s EXCEPT !.estimated_memory_usage_ = @ - PairSize(s, key),
              !.kv_store_ = MapErase(@, key),
              !.lru_list_ = IF CACHING_ENABLED /\ key \in s.lru_map_ THEN ListErase(@, key) ELSE @,
              !.lru_map_ = IF CACHING_ENABLED THEN @ \ {key} ELSE @]

\* the body of the loop of _handle_del for one key
DelOne(s, key) ==
    [s EXCEPT !.estimated_memory_usage_ = @ - PairSize(s, key),
              !.kv_store_ = MapErase(@, key),
              !.ttl_map_ = MapErase(@, key),
              !.lru_list_ = IF CACHING_ENABLED /\ key \in s.lru_map_ THEN ListErase(@, key) ELSE @,
              !.lru_map_ = IF CACHING_ENABLED THEN @ \ {key} ELSE @]

RECURSIVE DelLoop(_, _, _, _)
\* the loop of _handle_del: the store left and the number of keys deleted
DelLoop(s, args, i, deleted_count) ==
    IF i > Len(args) THEN [db |-> s, deleted_count |-> deleted_count]
    ELSE IF args[i] \in DOMAIN s.kv_store_
    THEN DelLoop(DelOne(s, args[i]), args, i + 1, deleted_count + 1)
    ELSE DelLoop(s, args, i + 1, deleted_count)

_handle_del(s, args) ==
    IF Len(args) = 0 THEN Ret(s, 400, "-ERR wrong number of arguments")
    ELSE LET r == DelLoop(s, args, 1, 0)
         IN IF r.deleted_count = 0 THEN Ret(r.db, 200, "0")
            ELSE Ret(SaveIfWriteThrough([r.db EXCEPT !.dirty_operations_ = @ + r.deleted_count]),
                     200, to_string(r.deleted_count))

_handle_incr_decr(s, args, is_incr) ==
    IF Len(args) = 0 \/ Len(args) > 2 THEN Ret(s, 400, "-ERR wrong number of arguments")
    ELSE LET key == args[1]
             given == IF Len(args) = 2 THEN stoll(args[2]) ELSE [ok |-> TRUE, val |-> 1]
             amount == IF is_incr THEN given.val ELSE 0 - given.val
             present == key \in DOMAIN s.kv_store_
             current == IF present THEN stoll(s.kv_store_[key]) ELSE [ok |-> TRUE, val |-> 0]
             old_size == IF present THEN PairSize(s, key) ELSE 0
             new_val_str == to_string(current.val + amount)
             s1 == _update_lru([s EXCEPT !.kv_store_ = MapPut(@, key, new_val_str),
                                         !.estimated_memory_usage_ =
                                             @ + (Len(key) + Len(new_val_str)) - old_size], key)
             s2 == _enforce_memory_limit([s1 EXCEPT !.dirty_operations_ = @ + 1])
         IN IF ~given.ok THEN Ret(s, 400, "-ERR not an integer")
            ELSE IF ~current.ok THEN Ret(s, 400, "-ERR value is not an integer")
            ELSE Ret(SaveIfWriteThrough(s2), 200, new_val_str)

\* a TTL that removes the key whose deadline it finds passed
_handle_ttl_lazy(s, args) ==
    IF Len(args) # 1 THEN Ret(s, 400, "-ERR wrong number of arguments")
    ELSE IF args[1] \notin DOMAIN s.kv_store_ THEN Ret(s, 404, "(nil)")
    ELSE IF args[1] \notin DOMAIN s.ttl_map_ THEN Ret(s, 200, "-1")
    ELSE IF now_ms > s.ttl_map_[args[1]] THEN Ret(DelOne(s, args[1]), 404, "(nil)")
    ELSE Ret(s, 200, to_string((s.ttl_map_[args[1]] - now_ms) \div MsPerSecond))

_handle_ttl(s, args) ==
    IF Len(args) # 1 THEN Ret(s, 400, "-ERR wrong number of arguments")
    ELSE IF args[1] \notin DOMAIN s.kv_store_ THEN Ret(s, 404, "(nil)")
    ELSE IF args[1] \notin DOMAIN s.ttl_map_ THEN Ret(s, 200, "-1")
    ELSE LET expiry_ms == s.ttl_map_[args[1]]
         IN IF now_ms > expiry_ms THEN Ret(s, 404, "(nil)")
            ELSE Ret(s, 200, to_string((expiry_ms - now_ms) \div MsPerSecond))

\* an EXPIRE that writes the deadline now + ttl_s seconds whatever ttl_s is
_handle_expire_any(s, args) ==
    IF Len(args) # 2 THEN Ret(s, 400, "-ERR wrong number of arguments")
    ELSE IF args[1] \notin DOMAIN s.kv_store_ THEN Ret(s, 404, "(nil)")
    ELSE IF ~stoll(args[2]).ok THEN Ret(s, 400, "-ERR invalid TTL value")
    ELSE Ret(SaveIfWriteThrough(
                 [s EXCEPT !.ttl_map_ = MapPut(@, args[1], now_ms + stoll(args[2]).val * MsPerSecond),
                           !.dirty_operations_ = @ + 1]), 200, "+OK")

_handle_expire(s, args) ==
    IF Len(args) # 2 THEN Ret(s, 400, "-ERR wrong number of arguments")
    ELSE IF args[1] \notin DOMAIN s.kv_store_ THEN Ret(s, 404, "(nil)")
    ELSE LET ttl_s == stoll(args[2])
             s1 == IF ttl_s.val <= 0
                   THEN [s EXCEPT !.ttl_map_ = MapErase(@, args[1])]
                   ELSE [s EXCEPT !.ttl_map_ = MapPut(@, args[1], now_ms + ttl_s.val * MsPerSecond)]
         IN IF ~ttl_s.ok THEN Ret(s, 400, "-ERR invalid TTL value")
            ELSE Ret(SaveIfWriteThrough([s1 EXCEPT !.dirty_operations_ = @ + 1]), 200, "+OK")

\* a CLRDB that leaves lru_list_ as it is
_handle_clrdb_keep_list(s) ==
    Ret(SaveIfWriteThrough([s EXCEPT !.kv_store_ = EmptyMap, !.ttl_map_ = EmptyMap,
                                     !.lru_map_ = {}, !.estimated_memory_usage_ = 0,
                                     !.dirty_operations_ = @ + 1]),
        200, "+OK " \o to_string(Cardinality(DOMAIN s.kv_store_)) \o " keys cleared.")

_handle_clrdb(s) ==
    LET keys_cleared == Cardinality(DOMAIN s.kv_store_)
        s1 == [s EXCEPT !.kv_store_ = EmptyMap, !.ttl_map_ = EmptyMap, !.lru_list_ = <<>>,
                        !.lru_map_ = {}, !.estimated_memory_usage_ = 0,
                        !.dirty_operations_ = @ + 1]
    IN Ret(SaveIfWriteThrough(s1), 200, "+OK " \o to_string(keys_cleared) \o " keys cleared.")

\* pair.first.rfind(prefix, 0) == 0
StartsWith(str, prefix) == Len(prefix) <= Len(str) /\ SubSeq(str, 1, Len(prefix)) = prefix

_handle_similar(s, args) ==
    IF Len(args) # 1 THEN Ret(s, 400, "-ERR wrong number of arguments, expected: SIMILAR <prefix>")
    ELSE IF args[1] = "" THEN Ret(s, 400, "-ERR prefix cannot be empty")
    ELSE Ret(s, 200, to_string(Cardinality({k \in DOMAIN s.kv_store_ : StartsWith(k, args[1])})))


_handle_batch(args) ==
    IF Len(args) # 1 THEN [res |-> Result(400, "-ERR BATCH requires one argument"), set |-> FALSE, new_size |-> 0]
    ELSE LET n == stoll(args[1])
         IN IF ~n.ok THEN [res |-> Result(400, "-ERR value is not an integer"), set |-> FALSE, new_size |-> 0]
            ELSE IF n.val < 0 THEN [res |-> Result(400, "-ERR batch size cannot be negative"), set |-> FALSE, new_size |-> 0]
            ELSE [res |-> Result(200, "+OK"), set |-> TRUE, new_size |-> n.val]

\* _handle_stats: the lines of the report that the store and the batch size
\* determine; the version, the thread count, the debug flag and the sizes of
\* the file and of the process are the machine's and are left out
_handle_stats(s) ==
    Ret(s, 200, "  - Batch Size: " \o to_string(BATCH_PROCESSING_SIZE) \o "\n"
                \o "  - Unsaved Ops: " \o to_string(s.dirty_operations_) \o "\n"
                \o "Total Keys: " \o to_string(Cardinality(DOMAIN s.kv_store_)) \o "\n"
                \o "Keys with TTL: " \o to_string(Cardinality(DOMAIN s.ttl_map_)) \o "\n")

\* _handle_debug: the reply. DEBUG_MODE, false when the process starts, is no
\* variable of the model: with it on, handle_client adds the duration of the
\* command to every reply, which no scenario here switches on
_handle_debug(s, args) ==
    IF Len(args) # 1 THEN Ret(s, 400, "-ERR DEBUG requires one argument")
    ELSE IF tolower(args[1]) = "true" THEN Ret(s, 200, "+OK Debug mode enabled.")
    ELSE IF tolower(args[1]) = "false" THEN Ret(s, 200, "+OK Debug mode disabled.")
    ELSE Ret(s, 400, "-ERR Invalid argument. Use 'true' or 'false'.")

\* _handle_stress works on a map of its own, stress_store, and returns a
\* report; the report's figures are timings and are not modelled
_handle_stress(args) ==
    IF Len(args) # 1 THEN Result(400, "-ERR STRESS requires one argument")
    ELSE LET count == stoll(args[1])
         IN IF ~count.ok THEN Result(400, "-ERR invalid number")
            ELSE IF count.val <= 0 THEN Result(400, "-ERR count must be positive")
            ELSE Result(200, "Stress Test running for " \o to_string(count.val) \o " ops ...")

\* whether _handle_stress reaches its allocations (std::vector<std::string>
\* keys(count), stress_store.reserve(count)), which may throw std::bad_alloc
StressAllocates(args) == Len(args) = 1 /\ stoll(args[1]).ok /\ stoll(args[1]).val > 0

\* keys[i] = "stress:" + std::to_string(i) for i < count
stress_keys(count) == {"stress:" \o to_string(i) : i \in 0..(count - 1)}

\* the four run_benchmark calls on store: set_op writes "svalue" under every
\* key, update_op "nvalue", get_op reads every key and del_op erases it
run_benchmarks(store, count) ==
    LET keys == stress_keys(count)
        set_op == [k \in (DOMAIN store) \cup keys |-> IF k \in keys THEN "svalue" ELSE store[k]]
        update_op == [k \in DOMAIN set_op |-> IF k \in keys THEN "nvalue" ELSE set_op[k]]
    IN [k \in (DOMAIN update_op) \ keys |-> update_op[k]]

\* a benchmark that runs on kv_store_
StressOnLive(s, args) ==
    IF ~StressAllocates(args) THEN [engine |-> s, stress_store |-> EmptyMap]
    ELSE [engine |-> [s EXCEPT !.kv_store_ = run_benchmarks(@, stoll(args[1]).val)],
          stress_store |-> EmptyMap]

\* the engine and the local map stress_store when _handle_stress returns:
\* the benchmark runs on stress_store, which starts empty
StressState(s, args) ==
    IF ~StressAllocates(args) THEN [engine |-> s, stress_store |-> EmptyMap]
    ELSE [engine |-> s, stress_store |-> run_benchmarks(EmptyMap, stoll(args[1]).val)]

\* -------------------------------------------------------------------- json
\* A value of nlohmann::ordered_json: t is its type ("null", "true", "false",
\* "num", "str", "arr", "obj"), n the number, s the string, a the elements of
\* an array or the members of an object in insertion order; a member ("mem")
\* has its key in s and its value as the one element of a. Numbers are
\* integers and strings hold no escape sequence: the texts the model parses
\* have neither fractions, exponents nor backslashes.
JVal(t, n, str, a) == [t |-> t, n |-> n, s |-> str, a |-> a]
JNull == JVal("null", 0, "", <<>>)
JBool(b) == JVal(IF b THEN "true" ELSE "false", 0, "", <<>>)
JNum(n) == JVal("num", n, "", <<>>)
JStr(str) == JVal("str", 0, str, <<>>)
JArr(elements) == JVal("arr", 0, "", elements)
JObj(members) == JVal("obj", 0, "", members)
JMember(key, value) == JVal("mem", 0, key, <<value>>)

\* the character at position i, "" past the end
Peek(str, i) == IF i >= 0 /\ i < Len(str) THEN At(str, i) ELSE ""

RECURSIVE SkipWs(_, _)
\* the lexer skips space, tab, line feed and carriage return
SkipWs(str, i) == IF Peek(str, i) \in {" ", "\t", "\n", "\r"} THEN SkipWs(str, i + 1) ELSE i

\* item.contains(field) on an object
Contains(item, field) == \E i \in 1..Len(item.a) : item.a[i].s = field

\* item[field] on an object that contains field
Member(item, field) == item.a[Min({i \in 1..Len(item.a) : item.a[i].s = field})].a[1]

\* item[field] = value: the member is assigned in place, or added at the end
PutMember(item, field, value) ==
    IF Contains(item, field)
    THEN JObj([i \in 1..Len(item.a) |->
                 IF item.a[i].s = field THEN JMember(field, value) ELSE item.a[i]])
    ELSE JObj(Append(item.a, JMember(field, value)))

\* the parser failed: json::parse throws json::parse_error
NoParse == [ok |-> FALSE, val |-> JNull, pos |-> 0]

RECURSIVE ParseValue(_, _)
RECURSIVE ParseElements(_, _, _)
RECURSIVE ParseMembers(_, _, _)
\* one value from position i on: the value and the position after it
ParseValue(text, i0) ==
    LET i == SkipWs(text, i0)
        c == Peek(text, i)
    IN CASE c = "[" ->
              IF Peek(text, SkipWs(text, i + 1)) = "]"
              THEN [ok |-> TRUE, val |-> JArr(<<>>), pos |-> SkipWs(text, i + 1) + 1]
              ELSE ParseElements(text, i + 1, <<>>)
         [] c = "{" ->
              IF Peek(text, SkipWs(text, i + 1)) = "}"
              THEN [ok |-> TRUE, val |-> JObj(<<>>), pos |-> SkipWs(text, i + 1) + 1]
              ELSE ParseMembers(text, i + 1, JObj(<<>>))
         [] c = "\"" ->
              LET close == find(text, "\"", i + 1)
              IN IF close = npos \/ find(substr(text, i + 1, close - i - 1), "\\", 0) # npos
                 THEN NoParse
                 ELSE [ok |-> TRUE, val |-> JStr(substr(text, i + 1, close - i - 1)),
                       pos |-> close + 1]
         [] c = "-" \/ (c # "" /\ isdigit(c)) ->
              LET j == IF c = "-" THEN i + 1 ELSE i
                  n == DigitRun(text, j)
                  value == DigitsValue(text, j, n)
              IN IF n = 0 \/ (n > 1 /\ Peek(text, j) = "0") \/ Peek(text, j + n) \in {".", "e", "E"}
                 THEN NoParse
                 ELSE [ok |-> TRUE, val |-> JNum(IF c = "-" THEN 0 - value ELSE value),
                       pos |-> j + n]
         [] c = "t" /\ substr(text, i, 4) = "true" ->
              [ok |-> TRUE, val |-> JBool(TRUE), pos |-> i + 4]
         [] c = "f" /\ substr(text, i, 5) = "false" ->
              [ok |-> TRUE, val |-> JBool(FALSE), pos |-> i + 5]
         [] c = "n" /\ substr(text, i, 4) = "null" ->
              [ok |-> TRUE, val |-> JNull, pos |-> i + 4]
         [] OTHER -> NoParse

\* the array with the element v.val added, after the value v has been read:
\* "," goes on with the next element, "]" ends the array
ElementsAfter(text, v, elements) ==
    IF ~v.ok THEN NoParse
    ELSE IF Peek(text, SkipWs(text, v.pos)) = ","
    THEN ParseElements(text, SkipWs(text, v.pos) + 1, Append(elements, v.val))
    ELSE IF Peek(text, SkipWs(text, v.pos)) = "]"
    THEN [ok |-> TRUE, val |-> JArr(Append(elements, v.val)), pos |-> SkipWs(text, v.pos) + 1]
    ELSE NoParse

\* the elements of an array after "[" or ",", up to "]"
ParseElements(text, i, elements) == ElementsAfter(text, ParseValue(text, i), elements)

\* the object with the member k.val.s assigned v.val, after the key k and the
\* value v have been read; a key that occurs again is assigned again
MembersAfter(text, k, v, object) ==
    IF ~v.ok THEN NoParse
    ELSE IF Peek(text, SkipWs(text, v.pos)) = ","
    THEN ParseMembers(text, SkipWs(text, v.pos) + 1, PutMember(object, k.val.s, v.val))
    ELSE IF Peek(text, SkipWs(text, v.pos)) = "}"
    THEN [ok |-> TRUE, val |-> PutMember(object, k.val.s, v.val), pos |-> SkipWs(text, v.pos) + 1]
    ELSE NoParse

\* the value of a member after its key k: a colon and a value
MemberValue(text, k) ==
    IF k.ok /\ Peek(text, SkipWs(text, k.pos)) = ":"
    THEN ParseValue(text, SkipWs(text, k.pos) + 1)
    ELSE NoParse

\* a member from its key k on
MemberAfterKey(text, k, object) == MembersAfter(text, k, MemberValue(text, k), object)

\* the members of an object after "{" or ",", up to "}"
ParseMembers(text, i, object) ==
    MemberAfterKey(text,
                   IF Peek(text, SkipWs(text, i)) = "\"" THEN ParseValue(text, i) ELSE NoParse,
                   object)

\* the value read from the whole text, when nothing but white space follows it
WholeText(text, v) ==
    IF v.ok /\ SkipWs(text, v.pos) = Len(text) THEN [ok |-> TRUE, val |-> v.val]
    ELSE [ok |-> FALSE, val |-> JNull]

\* json::parse(text): ok is FALSE where it throws
json_parse(text) == WholeText(text, ParseValue(text, 0))

\* the parsed value, or the text as a string where the parser failed
ValueOrString(parsed, text) == IF parsed.ok THEN parsed.val ELSE JStr(text)

\* try { x = json::parse(text); } catch(...) { x = text; }
ParseOrString(text) == ValueOrString(json_parse(text), text)

\* e.what() of a json::parse_error; the message is not modelled
parse_error_what == "parse error"

RECURSIVE Spaces(_)
Spaces(n) == IF n <= 0 THEN "" ELSE " " \o Spaces(n - 1)

RECURSIVE json_dump_indent(_, _, _)
RECURSIVE DumpItems(_, _, _, _)
\* j.dump(step) at the indentation indent; step is -1 for the compact dump()
json_dump_indent(j, step, indent) ==
    CASE j.t \in {"null", "true", "false"} -> j.t
      [] j.t = "num" -> to_string(j.n)
      [] j.t = "str" -> "\"" \o j.s \o "\""
      [] j.t = "mem" ->
           "\"" \o j.s \o (IF step < 0 THEN "\":" ELSE "\": ")
           \o json_dump_indent(j.a[1], step, indent)
      [] OTHER ->
           LET open == IF j.t = "arr" THEN "[" ELSE "{"
               close == IF j.t = "arr" THEN "]" ELSE "}"
           IN IF j.a = <<>> THEN open \o close
              ELSE IF step < 0 THEN open \o DumpItems(j.a, 1, step, indent) \o close
              ELSE open \o "\n" \o DumpItems(j.a, 1, step, indent + step) \o "\n"
                   \o Spaces(indent) \o close

\* the elements or members from the i-th on, separated by commas
DumpItems(items, i, step, indent) ==
    LET one == (IF step < 0 THEN "" ELSE Spaces(indent))
               \o json_dump_indent(items[i], step, indent)
    IN IF i = Len(items) THEN one
       ELSE one \o (IF step < 0 THEN "," ELSE ",\n") \o DumpItems(items, i + 1, step, indent)

\* j.dump()
json_dump(j) == json_dump_indent(j, -1, 0)

\* j.dump(2)
json_dump_2(j) == json_dump_indent(j, 2, 0)

\* std::find(args.begin(), args.end(), word) as an index; Len(args) + 1 is
\* args.end()
FindArg(args, word) ==
    LET hits == {i \in 1..Len(args) : args[i] = word}
    IN IF hits = {} THEN Len(args) + 1 ELSE Min(hits)

\* item.is_object() && item.contains(field) && item[field] == value
Matches(item, field, value) ==
    item.t = "obj" /\ Contains(item, field) /\ Member(item, field) = value

\* ----------------------------------------------------------- json handlers
\* _handle_json_set once json::parse(args[1]) has returned parsed
json_set_parsed(s, args, parsed) ==
    IF ~parsed.ok THEN Ret(s, 400, "-ERR invalid JSON: " \o parse_error_what)
    ELSE _handle_set(s, <<args[1], json_dump(parsed.val)>>
                        \o (IF Len(args) = 4 THEN <<args[3], args[4]>> ELSE <<>>))

_handle_json_set(s, args) ==
    IF Len(args) # 2 /\ Len(args) # 4
    THEN Ret(s, 400, "-ERR wrong number of arguments for 'JSON.SET'. Expected: JSON.SET <key> '<value>' [EX <seconds>]")
    ELSE json_set_parsed(s, args, json_parse(args[2]))

RECURSIVE AssignPairsAsStrings(_, _, _)
\* a loop that stores every value after SET as a string
AssignPairsAsStrings(item, args, it) ==
    IF it > Len(args) \/ it + 1 > Len(args) THEN item
    ELSE AssignPairsAsStrings(PutMember(item, args[it], JStr(args[it + 1])), args, it + 2)

RECURSIVE AssignPairs(_, _, _)
\* the loop over the pairs after SET: item[set_field] = set_value
AssignPairs(item, args, it) ==
    IF it > Len(args) \/ it + 1 > Len(args) THEN item
    ELSE AssignPairs(PutMember(item, args[it], ParseOrString(args[it + 1])), args, it + 2)

\* the checks of _handle_json_update before it takes the lock: the error
\* text, or "" when they pass
json_update_syntax(args) ==
    LET where_it == FindArg(args, "WHERE")
        set_it == FindArg(args, "SET")
        end == Len(args) + 1
    IN IF Len(args) < 4 THEN "-ERR invalid syntax for JSON.UPDATE"
       ELSE IF where_it = end \/ set_it = end \/ set_it - where_it # 3
       THEN "-ERR syntax error. Expected: ... WHERE <field> <value> SET ..."
       ELSE IF end - set_it < 3 \/ (end - set_it - 1) % 2 # 0
       THEN "-ERR syntax error. Expected: ... SET <field1> <value1> ..."
       ELSE ""

\* kv_store_[key] = new_dump and what follows it in _handle_json_update and
\* _handle_json_append: the estimate, the LRU list, the dirty counter, the
\* memory limit and the write-through save
StoreDump(s, key, new_dump) ==
    SaveIfWriteThrough(_enforce_memory_limit(
        [_update_lru([s EXCEPT !.kv_store_ = MapPut(@, key, new_dump),
                               !.estimated_memory_usage_ =
                                   @ + (Len(key) + Len(new_dump)) - PairSize(s, key)],
                     key)
         EXCEPT !.dirty_operations_ = @ + 1]))

\* the loop over the elements of doc: the elements that match are assigned
\* the pairs after SET
UpdateItems(items, where_field, where_value, args, set_it) ==
    [i \in 1..Len(items) |->
        IF Matches(items[i], where_field, where_value)
        THEN AssignPairs(items[i], args, set_it + 1) ELSE items[i]]

\* updated_count after the loop
UpdatedCount(items, where_field, where_value) ==
    Cardinality({i \in 1..Len(items) : Matches(items[i], where_field, where_value)})

\* _handle_json_update once the stored text has been parsed
json_update_parsed(s, args, parsed, where_field, where_value, set_it) ==
    IF ~parsed.ok THEN Ret(s, 500, "-ERR not a valid JSON document")
    ELSE IF parsed.val.t # "arr"
    THEN Ret(s, 400, "-ERR 'WHERE' clause can only be used on JSON arrays.")
    ELSE IF UpdatedCount(parsed.val.a, where_field, where_value) = 0 THEN Ret(s, 200, "0")
    ELSE Ret(StoreDump(s, args[1],
                       json_dump(JArr(UpdateItems(parsed.val.a, where_field, where_value,
                                                  args, set_it)))),
             200, to_string(UpdatedCount(parsed.val.a, where_field, where_value)))

\* The texts of the two replies about the WHERE clause have WHERE between
\* grave accents in the source; a TLA+ string cannot hold that character and
\* the model's texts have apostrophes in its place.
_handle_json_update(s, args) ==
    IF json_update_syntax(args) # "" THEN Ret(s, 400, json_update_syntax(args))
    ELSE IF args[1] \notin DOMAIN s.kv_store_ THEN Ret(s, 404, "(nil)")
    ELSE json_update_parsed(s, args, json_parse(s.kv_store_[args[1]]),
                            args[FindArg(args, "WHERE") + 1],
                            ParseOrString(args[FindArg(args, "WHERE") + 2]),
                            FindArg(args, "SET"))

\* an append that takes a value of any type as one new element
json_appended_any(doc, new_json) ==
    [ok |-> TRUE,
     doc |-> JArr(IF new_json.t = "arr" THEN doc.a \o new_json.a ELSE Append(doc.a, new_json))]

\* doc.push_back(new_json) for an object, doc.insert(doc.end(), ...) for an
\* array; ok is FALSE for any other value
json_appended(doc, new_json) ==
    IF new_json.t = "obj" THEN [ok |-> TRUE, doc |-> JArr(Append(doc.a, new_json))]
    ELSE IF new_json.t = "arr" THEN [ok |-> TRUE, doc |-> JArr(doc.a \o new_json.a)]
    ELSE [ok |-> FALSE, doc |-> doc]

\* _handle_json_append once doc has been extended
json_append_store(s, key, r) ==
    IF ~r.ok THEN Ret(s, 400, "-ERR append value must be a JSON object or array")
    ELSE Ret(StoreDump(s, key, json_dump(r.doc)), 200, to_string(Len(r.doc.a)))

\* _handle_json_append once the stored text and args[1] have been parsed
json_append_parsed(s, key, parsed, new_json) ==
    IF ~parsed.ok THEN Ret(s, 500, "-ERR value at key is not a valid JSON document")
    ELSE IF parsed.val.t # "arr"
    THEN Ret(s, 400, "-ERR APPEND requires the value at key to be a JSON array")
    ELSE IF ~new_json.ok THEN Ret(s, 400, "-ERR invalid JSON for append: " \o parse_error_what)
    ELSE json_append_store(s, key, json_appended(parsed.val, new_json.val))

_handle_json_append(s, args) ==
    IF Len(args) # 2
    THEN Ret(s, 400, "-ERR wrong number of arguments. Syntax: JSON.APPEND <key> '<json_to_append>'")
    ELSE IF args[1] \notin DOMAIN s.kv_store_ THEN Ret(s, 404, "(nil)")
    ELSE json_append_parsed(s, args[1], json_parse(s.kv_store_[args[1]]), json_parse(args[2]))

RECURSIVE RemoveItems(_, _, _)
\* doc.erase(std::remove_if(...), doc.end()): the elements that do not match,
\* in their order
RemoveItems(items, field, value) ==
    IF items = <<>> THEN <<>>
    ELSE (IF Matches(Head(items), field, value) THEN <<>> ELSE <<Head(items)>>)
         \o RemoveItems(Tail(items), field, value)

\* the WHERE form of _handle_json_del once the stored text has been parsed
json_del_parsed(s, key, parsed, field, value_to_find) ==
    IF ~parsed.ok THEN Ret(s, 500, "-ERR not a valid JSON document")
    ELSE IF parsed.val.t # "arr"
    THEN Ret(s, 400, "-ERR WHERE clause can only be used on JSON arrays.")
    ELSE IF UpdatedCount(parsed.val.a, field, value_to_find) = 0 THEN Ret(s, 200, "0")
    ELSE Ret(StoreDump(s, key, json_dump(JArr(RemoveItems(parsed.val.a, field, value_to_find)))),
             200, to_string(UpdatedCount(parsed.val.a, field, value_to_find)))

\* the checks of _handle_json_del before the WHERE form takes the lock
json_del_syntax(args) ==
    IF Len(args) = 0 THEN "-ERR wrong number of arguments"
    ELSE IF Len(args) # 4 \/ args[2] # "WHERE"
    THEN "-ERR syntax: JSON.DEL <key> [WHERE <field> <value>]"
    ELSE ""

_handle_json_del(s, args) ==
    IF Len(args) = 1 THEN _handle_del(s, args)
    ELSE IF json_del_syntax(args) # "" THEN Ret(s, 400, json_del_syntax(args))
    ELSE IF args[1] \notin DOMAIN s.kv_store_ THEN Ret(s, 404, "(nil)")
    ELSE json_del_parsed(s, args[1], json_parse(s.kv_store_[args[1]]), args[3],
                         ParseOrString(args[4]))

RECURSIVE PathTokens(_, _, _)
\* the reference tokens of to_json_pointer(path) after the "$." or "$" has
\* been cut: "." and "[" start a token, "]" is dropped
PathTokens(p, i, current) ==
    IF i >= Len(p) THEN <<current>>
    ELSE IF At(p, i) \in {".", "["} THEN <<current>> \o PathTokens(p, i + 1, "")
    ELSE IF At(p, i) = "]" THEN PathTokens(p, i + 1, current)
    ELSE PathTokens(p, i + 1, current \o At(p, i))

RECURSIVE At_pointer(_, _, _)
\* doc.at(pointer): ok is FALSE where it throws
At_pointer(doc, tokens, i) ==
    IF i > Len(tokens) THEN [ok |-> TRUE, val |-> doc]
    ELSE IF doc.t = "obj"
    THEN IF Contains(doc, tokens[i]) THEN At_pointer(Member(doc, tokens[i]), tokens, i + 1)
         ELSE [ok |-> FALSE, val |-> JNull]
    ELSE IF doc.t = "arr"
    THEN LET n == DigitRun(tokens[i], 0)
             index == DigitsValue(tokens[i], 0, n)
         IN IF n = 0 \/ n # Len(tokens[i]) \/ (n > 1 /\ At(tokens[i], 0) = "0")
               \/ index >= Len(doc.a)
            THEN [ok |-> FALSE, val |-> JNull]
            ELSE At_pointer(doc.a[index + 1], tokens, i + 1)
    ELSE [ok |-> FALSE, val |-> JNull]

\* clean_key of a path
clean_key(path_key) ==
    IF StartsWith(path_key, "$.") THEN substr_from(path_key, 2)
    ELSE IF StartsWith(path_key, "$[") THEN substr_from(path_key, 1)
    ELSE path_key

\* doc.at(to_json_pointer(path_key)), null where it throws
PathValue(doc, path_key) ==
    LET r == IF path_key = "" \/ path_key = "$" THEN [ok |-> TRUE, val |-> doc]
             ELSE At_pointer(doc, PathTokens(clean_key(path_key), 0, ""), 1)
    IN IF r.ok THEN r.val ELSE JNull

RECURSIVE PathResult(_, _, _, _)
\* result[clean_key] = ... for the paths args[i..]
PathResult(doc, args, i, result) ==
    IF i > Len(args) THEN result
    ELSE PathResult(doc, args, i + 1,
                    PutMember(result, clean_key(args[i]), PathValue(doc, args[i])))

RECURSIVE Filter(_, _, _)
\* the elements of items that match, in their order
Filter(items, field, value) ==
    IF items = <<>> THEN <<>>
    ELSE (IF Matches(Head(items), field, value) THEN <<Head(items)>> ELSE <<>>)
         \o Filter(Tail(items), field, value)

\* a handler of TwoBlocks returns from its first block
Early(code, text) == [found |-> FALSE, result_value |-> "", res |-> Result(code, text)]

\* the first block of a handler of TwoBlocks leaves result_value
Found(text) == [found |-> TRUE, result_value |-> text, res |-> Result(0, "")]

\* the WHERE branch of _handle_json_get once the elements have been filtered
json_get_results(results) ==
    IF results = <<>> THEN Early(404, "[]") ELSE Found(json_dump_2(JArr(results)))

\* _handle_json_get once the stored text has been parsed
json_get_parsed(args, parsed, where_it) ==
    IF ~parsed.ok THEN Early(500, "-ERR not a valid JSON document")
    ELSE IF where_it # Len(args) + 1
    THEN IF Len(args) + 1 - where_it # 3 THEN Early(400, "-ERR syntax: ... WHERE <field> <value>")
         ELSE IF parsed.val.t # "arr"
         THEN Early(400, "-ERR 'WHERE' clause can only be used on JSON arrays.")
         ELSE json_get_results(Filter(parsed.val.a, args[where_it + 1],
                                      ParseOrString(args[where_it + 2])))
    ELSE IF Len(args) > 1 THEN Found(json_dump_2(PathResult(parsed.val, args, 2, JObj(<<>>))))
    ELSE Found(json_dump_2(parsed.val))

\* the block of _handle_json_get under the shared lock: found is FALSE when
\* the handler returns res from it
_handle_json_get_lookup(s, args) ==
    IF args[1] \notin DOMAIN s.kv_store_ THEN Early(404, "(nil)")
    ELSE json_get_parsed(args, json_parse(s.kv_store_[args[1]]), FindArg(args, "WHERE"))

\* is_word_delimiter(c)
is_word_delimiter(c) ==
    ~(\E i \in 1..26 : SubSeq(LowerChars, i, i) = c \/ SubSeq(UpperChars, i, i) = c)
    /\ ~isdigit(c)

\* std::search(it, text.end(), term.begin(), term.end(), case_insensitive_equals)
\* as a position; Len(text) is text.end()
search(text, it, term) ==
    LET hits == {pos \in it..(Len(text) - Len(term)) :
                    tolower(substr(text, pos, Len(term))) = tolower(term)}
    IN IF hits = {} THEN Len(text) ELSE Min(hits)

\* a scan that takes any occurrence of the term for a match
WordLoopAnywhere(text, term, it0) == search(text, it0, term) # Len(text)

RECURSIVE WordLoop(_, _, _)
\* the while loop of json_contains_word on a string, from the iterator it0
WordLoop(text, term, it0) ==
    IF it0 = Len(text) THEN FALSE
    ELSE LET pos == search(text, it0, term)
             left_boundary_ok == pos = 0 \/ is_word_delimiter(At(text, pos - 1))
             right_boundary_ok == pos + Len(term) = Len(text)
                                  \/ is_word_delimiter(At(text, pos + Len(term)))
         IN IF pos = Len(text) THEN FALSE
            ELSE IF left_boundary_ok /\ right_boundary_ok THEN TRUE
            ELSE WordLoop(text, term, pos + 1)

RECURSIVE json_contains_word(_, _)
json_contains_word(j, term) ==
    IF j.t = "str" THEN IF Len(term) > Len(j.s) THEN FALSE ELSE WordLoop(j.s, term, 0)
    ELSE IF j.t = "obj" THEN \E i \in 1..Len(j.a) : json_contains_word(j.a[i].a[1], term)
    ELSE IF j.t = "arr" THEN \E i \in 1..Len(j.a) : json_contains_word(j.a[i], term)
    ELSE FALSE

\* the checks of _handle_json_search before it takes the lock: the error
\* text, or "" when they pass
json_search_syntax(args) ==
    IF Len(args) # 2 /\ Len(args) # 4 THEN "-ERR syntax: JSON.SEARCH <key> \"<term>\" [MAX <count>]"
    ELSE IF args[2] = "" THEN "-ERR search term cannot be empty"
    ELSE IF Len(args) = 4 /\ toupper(args[3]) # "MAX" THEN "-ERR expected MAX keyword after term"
    ELSE IF Len(args) = 4 /\ ~stoll(args[4]).ok THEN "-ERR invalid number for MAX count"
    ELSE IF Len(args) = 4 /\ stoll(args[4]).val <= 0 THEN "-ERR MAX count must be a positive integer"
    ELSE ""

RECURSIVE SearchLoop(_, _, _, _)
\* the loop over the elements of an array document
SearchLoop(items, term, limited, results) ==
    IF items = <<>> \/ (limited.ok /\ Len(results) >= limited.val) THEN results
    ELSE SearchLoop(Tail(items), term, limited,
                    IF json_contains_word(Head(items), term) THEN Append(results, Head(items))
                    ELSE results)

\* _handle_json_search once the results have been collected
json_search_results(results) ==
    IF results = <<>> THEN Early(404, "(nil)") ELSE Found(json_dump_2(JArr(results)))

\* _handle_json_search once the stored text has been parsed; limited.ok is
\* TRUE when a MAX count was given
json_search_parsed(parsed, term, limited) ==
    IF ~parsed.ok THEN Early(500, "-ERR not a valid JSON document")
    ELSE IF parsed.val.t = "arr"
    THEN json_search_results(SearchLoop(parsed.val.a, term, limited, <<>>))
    ELSE json_search_results(IF json_contains_word(parsed.val, term) THEN <<parsed.val>>
                             ELSE <<>>)

\* the block of _handle_json_search under the shared lock
_handle_json_search_lookup(s, args) ==
    IF args[1] \notin DOMAIN s.kv_store_ THEN Early(404, "(nil)")
    ELSE json_search_parsed(json_parse(s.kv_store_[args[1]]), args[2],
                            IF Len(args) = 4 THEN stoll(args[4]) ELSE [ok |-> FALSE, val |-> 0])

\* --------------------------------------------------------------- dispatch
\* the keys of command_map whose handlers are modelled
command_map ==
    {"SET", "GET", "DEL", "UPDATE", "INCR", "DECR", "TTL", "EXPIRE", "BATCH", "STRESS",
     "CLRDB", "SIMILAR", "JSON.SET", "JSON.GET", "JSON.UPDATE", "JSON.APPEND", "JSON.SEARCH",
     "JSON.DEL", "STATS", "DEBUG"}

\* the handlers with a block under the shared lock and a second block under
\* the exclusive lock
TwoBlocks == {"GET", "JSON.GET", "JSON.SEARCH"}

\* a handler that takes a shared_lock where _handle_set takes its lock
SetLockShared == "shared"

\* std::unique_lock<std::shared_mutex> lock(data_mutex_) in _handle_set
SetLock == "exclusive"

\* a handler that takes a shared_lock where _handle_incr_decr takes its lock
IncrDecrLockShared == "shared"

\* std::unique_lock<std::shared_mutex> lock(data_mutex_) in _handle_incr_decr
IncrDecrLock == "exclusive"

\* the lock on data_mutex_ a handler takes first: "exclusive" (unique_lock),
\* "shared" (shared_lock) or "none" (it returns, or runs, without the lock)
LockMode(cmd, args) ==
    CASE cmd = "SET" -> IF Len(args) # 2 /\ Len(args) # 4 THEN "none" ELSE SetLock
      [] cmd = "GET" -> IF Len(args) # 1 THEN "none" ELSE "shared"
      [] cmd = "DEL" -> IF Len(args) = 0 THEN "none" ELSE "exclusive"
      [] cmd = "UPDATE" -> IF Len(args) # 2 THEN "none" ELSE "exclusive"
      [] cmd \in {"INCR", "DECR"} -> IF Len(args) = 0 \/ Len(args) > 2 THEN "none" ELSE IncrDecrLock
      [] cmd = "TTL" -> IF Len(args) # 1 THEN "none" ELSE "shared"
      [] cmd = "EXPIRE" -> IF Len(args) # 2 THEN "none" ELSE "exclusive"
      [] cmd = "CLRDB" -> "exclusive"
      [] cmd = "SIMILAR" -> IF Len(args) # 1 \/ args[1] = "" THEN "none" ELSE "shared"
      [] cmd = "JSON.SET" ->
           IF (Len(args) # 2 /\ Len(args) # 4) \/ ~json_parse(args[2]).ok THEN "none" ELSE SetLock
      [] cmd = "JSON.GET" -> IF Len(args) = 0 THEN "none" ELSE "shared"
      [] cmd = "JSON.UPDATE" -> IF json_update_syntax(args) # "" THEN "none" ELSE "exclusive"
      [] cmd = "JSON.APPEND" -> IF Len(args) # 2 THEN "none" ELSE "exclusive"
      [] cmd = "JSON.SEARCH" -> IF json_search_syntax(args) # "" THEN "none" ELSE "shared"
      [] cmd = "JSON.DEL" ->
           IF Len(args) # 1 /\ json_del_syntax(args) # "" THEN "none" ELSE "exclusive"
      [] cmd = "STATS" -> "shared"
      [] OTHER -> "none"

\* it->second(task.args) for the handlers that work on the store in one
\* critical section
Handle(s, cmd, args) ==
    CASE cmd = "SET" -> _handle_set(s, args)
      [] cmd = "DEL" -> _handle_del(s, args)
      [] cmd = "UPDATE" -> _handle_update(s, args)
      [] cmd = "INCR" -> _handle_incr_decr(s, args, TRUE)
      [] cmd = "DECR" -> _handle_incr_decr(s, args, FALSE)
      [] cmd = "TTL" -> _handle_ttl(s, args)
      [] cmd = "EXPIRE" -> _handle_expire(s, args)
      [] cmd = "CLRDB" -> _handle_clrdb(s)
      [] cmd = "SIMILAR" -> _handle_similar(s, args)
      [] cmd = "GET" -> Ret(s, 400, "-ERR wrong number of arguments")
      [] cmd = "JSON.SET" -> _handle_json_set(s, args)
      [] cmd = "JSON.UPDATE" -> _handle_json_update(s, args)
      [] cmd = "JSON.APPEND" -> _handle_json_append(s, args)
      [] cmd = "JSON.GET" -> Ret(s, 400, "-ERR wrong number of arguments")
      [] cmd = "JSON.SEARCH" -> Ret(s, 400, json_search_syntax(args))
      [] cmd = "JSON.DEL" -> _handle_json_del(s, args)
      [] cmd = "STATS" -> _handle_stats(s)
      [] cmd = "DEBUG" -> _handle_debug(s, args)
      [] OTHER -> Ret(s, 400, "-ERR unknown command '" \o cmd \o "'")

\* the first block of a handler of TwoBlocks: found is FALSE when the handler
\* returns res from it
Lookup(s, cmd, args) ==
    CASE cmd = "JSON.GET" -> _handle_json_get_lookup(s, args)
      [] cmd = "JSON.SEARCH" -> _handle_json_search_lookup(s, args)
      [] OTHER -> [found |-> _handle_get_lookup(s, args).found,
                   result_value |-> _handle_get_lookup(s, args).result_value,
                   res |-> Result(404, "(nil)")]

\* the value the worker passes to task.promise.set_value when the handler
\* takes no lock on data_mutex_ and returns
WorkerResultNoLock(s, cmd, args) ==
    IF cmd \notin command_map THEN Result(400, "-ERR unknown command '" \o cmd \o "'")
    ELSE IF cmd = "BATCH" THEN _handle_batch(args).res
    ELSE IF cmd = "STRESS" THEN _handle_stress(args)
    ELSE Handle(s, cmd, args).res


\* ------------------------------------------------------- load_from_file
RECURSIVE LoadLoop(_, _, _)
\* the loop over kv_store_ in load_from_file, in the order the map iterates
LoadLoop(s, order, i) ==
    IF i > Len(order) THEN s
    ELSE LoadLoop(_update_lru([s EXCEPT !.estimated_memory_usage_ = @ + PairSize(s, order[i])],
                              order[i]), order, i + 1)

\* the orders in which an unordered_map with the key set S may iterate
IterationOrders(S) ==
    {f \in [1..Cardinality(S) -> S] : \A i, j \in 1..Cardinality(S) : i # j => f[i] # f[j]}

\* load_from_file on a freshly constructed engine; order is the iteration
\* order of kv_store_. An exception ends the try block where it is thrown: by
\* ifs >> db_json, by the conversion of "store" (before kv_store_ is assigned)
\* or by the conversion of "ttl" (after kv_store_ was assigned).
load_from_file(s, order) ==
    IF ~PERSISTENCE_ENABLED \/ ~s.file.present THEN s
    ELSE IF s.file.damage \in {"text", "store"} THEN s
    ELSE IF s.file.damage = "ttl" THEN [s EXCEPT !.kv_store_ = Undump(s.file.store)]
    ELSE _enforce_memory_limit(
             LoadLoop([s EXCEPT !.kv_store_ = Undump(s.file.store),
                                !.ttl_map_ = Undump(s.file.ttl)], order, 1))

\* --------------------------------------------------------------- threads
NoTask == [conn |-> 0, command_str |-> "", args |-> <<>>]
NoResult == Result(0, "")

\* a worker thread that has not run yet
NewWorker == [pc |-> "top", task |-> NoTask, called_ms |-> 0, phase |-> 1,
              result_value |-> "", view |-> FreshDb(NoFile)]
\* a slot of workers_ the constructor did not fill
NoWorker == [NewWorker EXCEPT !.pc = "none"]

\* the process at the other end of a socket: the messages it has passed to
\* send_message, the buffers its send_all calls still have to write, whether
\* it wrote a header of its own making, and whether its end is closed
NoPeer == [msgs |-> <<>>, out |-> <<>>, raw |-> FALSE, closed |-> FALSE]

\* a handle_client thread on a freshly accepted socket; wire holds the bytes
\* the peer has written and recv has not returned yet, rx the bytes the recv
\* calls of this thread have returned
NewConn == [pc |-> "recv", sent |-> <<>>, replies |-> <<>>, result |-> NoResult,
            promise_sets |-> 0, wire |-> <<>>, rx |-> <<>>, peer |-> NoPeer]
\* a socket not accepted yet
NoConn == [NewConn EXCEPT !.pc = "none"]

UnlockedData == [writer |-> 0, readers |-> {}]

\* the workers blocked in condition_.wait
Blocked == {w \in Workers : worker[w].pc = "blocked"}

\* task.promise.set_value(res), seen from the connection that holds the future
Fulfil(c, res) == [conn EXCEPT ![c].result = res, ![c].promise_sets = @ + 1]

\* a catch block that sets no value
CaughtDropped(c, what) == conn

\* catch (const std::exception& e): the promise is set to status 500 with e.what()
Caught(c, what) == Fulfil(c, Result(500, "-ERR worker exception: " \o what))

\* a handler that returns with its lock on data_mutex_ still held
ReleaseNever(t) == data_mutex_

\* the lock on data_mutex_ is released by the thread t
Release(t) == [writer |-> IF data_mutex_.writer = t THEN 0 ELSE data_mutex_.writer,
               readers |-> data_mutex_.readers \ {t}]

\* the background manager's name as a holder of data_mutex_
BgThread == NumWorkers + 1

\* ------------------------------------------------------- handle_client
\* a connection thread that hands PING to the pool like any other command
ClientRecvQueuesPing(c, lines) ==
    /\ conn[c].pc = "recv"
    /\ \E line \in lines :
         LET parsed == parse_command_line(line)
             command == IF parsed = <<>> THEN "" ELSE toupper(parsed[1])
             args == IF parsed = <<>> THEN <<>> ELSE Tail(parsed)
             got == [conn[c] EXCEPT !.sent = Append(@, line)]
         IN IF parsed = <<>>
            THEN /\ conn' = [conn EXCEPT ![c] = [got EXCEPT !.pc = "send",
                                    !.result = Result(400, "-ERR empty command")]]
                 /\ UNCHANGED <<task_queue_, worker>>
            ELSE IF command = "QUIT"
            THEN /\ conn' = [conn EXCEPT ![c] = [got EXCEPT !.pc = "closed",
                                    !.replies = Append(@, "+OK Bye")]]
                 /\ UNCHANGED <<task_queue_, worker>>
            ELSE /\ queue_mutex_ = 0
                 /\ task_queue_' = Append(task_queue_,
                                          [conn |-> c, command_str |-> command, args |-> args])
                 /\ conn' = [conn EXCEPT ![c] = [got EXCEPT !.pc = "wait",
                                    !.result = NoResult, !.promise_sets = 0]]
                 /\ \E wk \in (IF Blocked = {} THEN {0} ELSE Blocked) :
                      worker' = IF wk = 0 THEN worker ELSE [worker EXCEPT ![wk].pc = "woken"]
    /\ UNCHANGED <<db, max_memory_bytes_, BATCH_PROCESSING_SIZE, disk_ok, now_ms, data_mutex_,
                   queue_mutex_, stop_all_, bg, main_pc>>

\* One round of the loop of handle_client up to the reply being known or the
\* task being queued: recv_message, parse_command_line, and then the empty
\* command, QUIT (answered and closed), PING, or dispatch_command.
ClientRecv(c, lines) ==
    /\ conn[c].pc = "recv"
    /\ \E line \in lines :
         LET parsed == parse_command_line(line)
             command == IF parsed = <<>> THEN "" ELSE toupper(parsed[1])
             args == IF parsed = <<>> THEN <<>> ELSE Tail(parsed)
             got == [conn[c] EXCEPT !.sent = Append(@, line)]
         IN IF parsed = <<>>
            THEN /\ conn' = [conn EXCEPT ![c] = [got EXCEPT !.pc = "send",
                                    !.result = Result(400, "-ERR empty command")]]
                 /\ UNCHANGED <<task_queue_, worker>>
            ELSE IF command = "QUIT"
            THEN /\ conn' = [conn EXCEPT ![c] = [got EXCEPT !.pc = "closed",
                                    !.replies = Append(@, "+OK Bye")]]
                 /\ UNCHANGED <<task_queue_, worker>>
            ELSE IF command = "PING"
            THEN /\ conn' = [conn EXCEPT ![c] = [got EXCEPT !.pc = "send",
                                    !.result = Result(200, "+PONG")]]
                 /\ UNCHANGED <<task_queue_, worker>>
            ELSE \* dispatch_command: push under queue_mutex_, then notify_one
                 /\ queue_mutex_ = 0
                 /\ task_queue_' = Append(task_queue_,
                                          [conn |-> c, command_str |-> command, args |-> args])
                 /\ conn' = [conn EXCEPT ![c] = [got EXCEPT !.pc = "wait",
                                    !.result = NoResult, !.promise_sets = 0]]
                 /\ \E wk \in (IF Blocked = {} THEN {0} ELSE Blocked) :
                      worker' = IF wk = 0 THEN worker ELSE [worker EXCEPT ![wk].pc = "woken"]
    /\ UNCHANGED <<db, max_memory_bytes_, BATCH_PROCESSING_SIZE, disk_ok, now_ms, data_mutex_,
                   queue_mutex_, stop_all_, bg, main_pc>>

\* a connection thread that does not wait for the promise
ReplyReadyEarly(c) == conn[c].pc \in {"send", "wait"}

\* whether the reply of the current round is known: set directly, or
\* future.get() can return
ReplyReady(c) == conn[c].pc = "send" \/ (conn[c].pc = "wait" /\ conn[c].promise_sets > 0)

\* send_message(client_socket, result_text) succeeds
ClientSend(c) ==
    /\ ReplyReady(c)
    /\ conn' = [conn EXCEPT ![c].pc = "recv", ![c].replies = Append(@, conn[c].result.text)]
    /\ UNCHANGED <<db, max_memory_bytes_, BATCH_PROCESSING_SIZE, disk_ok, now_ms, data_mutex_,
                   queue_mutex_, task_queue_, stop_all_, worker, bg, main_pc>>

\* send_message fails (the peer is gone): the loop breaks, the socket is
\* closed with the reply lost
ClientSendFail(c) ==
    /\ ReplyReady(c)
    /\ conn' = [conn EXCEPT ![c].pc = "lost"]
    /\ UNCHANGED <<db, max_memory_bytes_, BATCH_PROCESSING_SIZE, disk_ok, now_ms, data_mutex_,
                   queue_mutex_, task_queue_, stop_all_, worker, bg, main_pc>>

\* recv_message returns false (end of stream, or a header over
\* MAX_PAYLOAD_SIZE): the loop breaks, the socket is closed
ClientEof(c) ==
    /\ conn[c].pc = "recv"
    /\ conn' = [conn EXCEPT ![c].pc = "closed"]
    /\ UNCHANGED <<db, max_memory_bytes_, BATCH_PROCESSING_SIZE, disk_ok, now_ms, data_mutex_,
                   queue_mutex_, task_queue_, stop_all_, worker, bg, main_pc>>

\* ----------------------------------------------------------------- framing
\* A byte is a number in 0..255. A std::string holds bytes; the model's
\* strings hold characters, and Ascii relates the two for the printable
\* characters.
MAX_PAYLOAD_SIZE == 1073741824

\* the printable characters of ASCII in the order of their codes: 32 to 95,
\* and 97 to 126 (a TLA+ string cannot hold the grave accent, 96)
AsciiLow == " !\"#$%&'()*+,-./0123456789:;<=>?@ABCDEFGHIJKLMNOPQRSTUVWXYZ[\\]^_"
AsciiHigh == "abcdefghijklmnopqrstuvwxyz{|}~"

\* the byte that holds the character ch
ByteOf(ch) ==
    LET low == {i \in 1..Len(AsciiLow) : SubSeq(AsciiLow, i, i) = ch}
    IN IF low # {} THEN 31 + Min(low)
       ELSE 96 + Min({i \in 1..Len(AsciiHigh) : SubSeq(AsciiHigh, i, i) = ch})

\* the character a byte holds
CharOf(byte) ==
    IF byte < 96 THEN SubSeq(AsciiLow, byte - 31, byte - 31)
    ELSE SubSeq(AsciiHigh, byte - 96, byte - 96)

RECURSIVE c_str(_)
\* msg.c_str(): the bytes of a string
c_str(msg) == IF msg = "" THEN <<>> ELSE <<ByteOf(At(msg, 0))>> \o c_str(Tail(msg))

RECURSIVE StringOf(_)
\* the std::string whose bytes recv_all stored through &msg[0]
StringOf(bytes) ==
    IF bytes = <<>> THEN "" ELSE CharOf(Head(bytes)) \o StringOf(Tail(bytes))

\* a header written least significant byte first
nuke_htonll_identity(len) ==
    <<len % 256, (len \div 256) % 256, (len \div 65536) % 256, (len \div 16777216) % 256,
      0, 0, 0, 0>>

\* nuke_htonll(len), as the eight bytes of net_len in memory order, which is
\* the order send_all writes them in; len is below 2^31
nuke_htonll(len) ==
    <<0, 0, 0, 0, (len \div 16777216) % 256, (len \div 65536) % 256, (len \div 256) % 256,
      len % 256>>

\* nuke_ntohll(net_len) of the eight bytes recv_all stored in net_len: the
\* value, or wide for the values of 2^31 and more
nuke_ntohll(net_len) ==
    IF (\E i \in 1..4 : net_len[i] # 0) \/ net_len[5] >= 128
    THEN [wide |-> TRUE, val |-> 0]
    ELSE [wide |-> FALSE,
          val |-> ((net_len[5] * 256 + net_len[6]) * 256 + net_len[7]) * 256 + net_len[8]]

\* a comparison that lets a length of MAX_PAYLOAD_SIZE + 1 and more pass
TooLongNever(msg_len) == FALSE

\* if (msg_len > MAX_PAYLOAD_SIZE)
TooLong(msg_len) == msg_len.wide \/ msg_len.val > MAX_PAYLOAD_SIZE

RECURSIVE Consumed(_)
\* the bytes of the frames recv_message has returned on a connection
Consumed(sent) == IF sent = <<>> THEN 0 ELSE 8 + Len(Head(sent)) + Consumed(Tail(sent))

\* the bytes recv_all has stored for the frame recv_message is reading:
\* net_len, then msg
Pending(c) == SubSeq(conn[c].rx, Consumed(conn[c].sent) + 1, Len(conn[c].rx))

\* the header is complete: msg_len = nuke_ntohll(net_len)
HeaderRead(c) == Len(Pending(c)) >= 8
msg_len(c) == nuke_ntohll(SubSeq(Pending(c), 1, 8))

\* len - recvd of the recv_all call recv_message is in; 0 when it is in none
Wanted(c) ==
    IF ~HeaderRead(c) THEN 8 - Len(Pending(c))
    ELSE IF TooLong(msg_len(c)) THEN 0
    ELSE 8 + msg_len(c).val - Len(Pending(c))

\* recv_all: one recv call returns n > 0 bytes, at most len - recvd
SockRecv(c) ==
    /\ conn[c].pc = "recv"
    /\ Wanted(c) > 0
    /\ \E n \in 1..Min({Wanted(c), Len(conn[c].wire)}) :
         conn' = [conn EXCEPT ![c].rx = @ \o SubSeq(conn[c].wire, 1, n),
                              ![c].wire = SubSeq(@, n + 1, Len(@))]
    /\ UNCHANGED <<db, max_memory_bytes_, BATCH_PROCESSING_SIZE, disk_ok, now_ms, data_mutex_,
                   queue_mutex_, task_queue_, stop_all_, worker, bg, main_pc>>

\* recv_all: recv returns 0, the peer has closed its end and every byte it
\* wrote has been read; recv_message returns false
SockRecvEnd(c) ==
    /\ Wanted(c) > 0
    /\ conn[c].wire = <<>>
    /\ conn[c].peer.closed
    /\ ClientEof(c)

\* recv_message returns false for a header over MAX_PAYLOAD_SIZE
RecvTooLong(c) ==
    /\ HeaderRead(c)
    /\ TooLong(msg_len(c))
    /\ ClientEof(c)

\* recv_message returns true: msg holds the msg_len bytes after the header
\* (none for msg_len = 0), and the round of handle_client goes on with it
RecvMessage(c) ==
    /\ HeaderRead(c)
    /\ ~TooLong(msg_len(c))
    /\ Wanted(c) = 0
    /\ ClientRecv(c, {StringOf(SubSeq(Pending(c), 9, Len(Pending(c))))})

\* the peer calls send_message(sock, msg): send_all on the header, and on the
\* body when len > 0
PeerSendMessage(c, msgs) ==
    /\ conn[c].pc # "none"
    /\ conn[c].peer = [conn[c].peer EXCEPT !.out = <<>>, !.raw = FALSE, !.closed = FALSE]
    /\ \E msg \in msgs :
         conn' = [conn EXCEPT ![c].peer.msgs = Append(@, msg),
                              ![c].peer.out = IF Len(msg) > 0
                                              THEN <<nuke_htonll(Len(msg)), c_str(msg)>>
                                              ELSE <<nuke_htonll(Len(msg))>>]
    /\ UNCHANGED <<db, max_memory_bytes_, BATCH_PROCESSING_SIZE, disk_ok, now_ms, data_mutex_,
                   queue_mutex_, task_queue_, stop_all_, worker, bg, main_pc>>

\* send_all: one send call accepts n > 0 bytes of the len - sent left
PeerSend(c) ==
    /\ conn[c].peer.out # <<>>
    /\ ~conn[c].peer.closed
    /\ LET buf == Head(conn[c].peer.out)
       IN \E n \in 1..Len(buf) :
            conn' = [conn EXCEPT ![c].wire = @ \o SubSeq(buf, 1, n),
                                 ![c].peer.out = IF n = Len(buf) THEN Tail(@)
                                                 ELSE <<SubSeq(buf, n + 1, Len(buf))>> \o Tail(@)]
    /\ UNCHANGED <<db, max_memory_bytes_, BATCH_PROCESSING_SIZE, disk_ok, now_ms, data_mutex_,
                   queue_mutex_, task_queue_, stop_all_, worker, bg, main_pc>>

\* the peer's end of the stream closes: send returns n <= 0 and send_message
\* false with what is left unwritten, or the peer has nothing more to send
PeerClose(c) ==
    /\ conn[c].pc # "none"
    /\ ~conn[c].peer.closed
    /\ conn' = [conn EXCEPT ![c].peer.closed = TRUE, ![c].peer.out = <<>>]
    /\ UNCHANGED <<db, max_memory_bytes_, BATCH_PROCESSING_SIZE, disk_ok, now_ms, data_mutex_,
                   queue_mutex_, task_queue_, stop_all_, worker, bg, main_pc>>

\* a peer that does not speak the protocol writes eight bytes of its own
PeerRaw(c, headers) ==
    /\ conn[c].pc # "none"
    /\ conn[c].peer = [conn[c].peer EXCEPT !.out = <<>>, !.raw = FALSE, !.closed = FALSE]
    /\ \E h \in headers : conn' = [conn EXCEPT ![c].peer.out = <<h>>, ![c].peer.raw = TRUE]
    /\ UNCHANGED <<db, max_memory_bytes_, BATCH_PROCESSING_SIZE, disk_ok, now_ms, data_mutex_,
                   queue_mutex_, task_queue_, stop_all_, worker, bg, main_pc>>


\* ----------------------------------------------------- _worker_function
\* while (!stop_all_) and std::unique_lock<std::mutex> lock(queue_mutex_)
WorkerTop(w) ==
    /\ worker[w].pc = "top"
    /\ IF stop_all_
       THEN /\ worker' = [worker EXCEPT ![w].pc = "exited"]
            /\ UNCHANGED queue_mutex_
       ELSE /\ queue_mutex_ = 0
            /\ queue_mutex_' = w
            /\ worker' = [worker EXCEPT ![w].pc = "pred"]
    /\ UNCHANGED <<db, max_memory_bytes_, BATCH_PROCESSING_SIZE, disk_ok, now_ms, data_mutex_,
                   task_queue_, stop_all_, conn, bg, main_pc>>

\* condition_.wait evaluates its predicate under queue_mutex_; when it holds:
\* if (stop_all_ && task_queue_.empty()) return; else the front task is taken.
\* called_ms is the time at which the task was taken, before its handler runs.
WorkerPred(w) ==
    /\ worker[w].pc = "pred"
    /\ IF task_queue_ # <<>> \/ stop_all_
       THEN /\ queue_mutex_' = 0
            /\ IF stop_all_ /\ task_queue_ = <<>>
               THEN /\ worker' = [worker EXCEPT ![w].pc = "exited"]
                    /\ UNCHANGED task_queue_
               ELSE /\ worker' = [worker EXCEPT ![w].pc = "run", ![w].task = Head(task_queue_),
                                                ![w].called_ms = now_ms]
                    /\ task_queue_' = Tail(task_queue_)
       ELSE /\ worker' = [worker EXCEPT ![w].pc = "prewait"]
            /\ UNCHANGED <<queue_mutex_, task_queue_>>
    /\ UNCHANGED <<db, max_memory_bytes_, BATCH_PROCESSING_SIZE, disk_ok, now_ms, data_mutex_,
                   stop_all_, conn, bg, main_pc>>

\* the predicate was false: the thread releases queue_mutex_ and blocks
WorkerBlock(w) ==
    /\ worker[w].pc = "prewait"
    /\ worker' = [worker EXCEPT ![w].pc = "blocked"]
    /\ queue_mutex_' = 0
    /\ UNCHANGED <<db, max_memory_bytes_, BATCH_PROCESSING_SIZE, disk_ok, now_ms, data_mutex_,
                   task_queue_, stop_all_, conn, bg, main_pc>>

\* a notified thread takes queue_mutex_ again and evaluates the predicate
WorkerWake(w) ==
    /\ worker[w].pc = "woken"
    /\ queue_mutex_ = 0
    /\ queue_mutex_' = w
    /\ worker' = [worker EXCEPT ![w].pc = "pred"]
    /\ UNCHANGED <<db, max_memory_bytes_, BATCH_PROCESSING_SIZE, disk_ok, now_ms, data_mutex_,
                   task_queue_, stop_all_, conn, bg, main_pc>>

\* a worker thread that ends after a task
FinishedExit(w) == [worker EXCEPT ![w].pc = "exited"]

\* the worker is back at the top of its loop
Finished(w) == [worker EXCEPT ![w] = NewWorker]

\* The handler starts: it returns without a lock on data_mutex_ (and the
\* promise is set), or it takes the lock its first (or, for the handlers of
\* TwoBlocks, second) critical section needs. view is the store as the critical section reads it.
WorkerRun(w) ==
    /\ worker[w].pc = "run"
    /\ LET t == worker[w].task
           mode == IF worker[w].phase = 2 THEN "exclusive" ELSE LockMode(t.command_str, t.args)
       IN CASE mode = "none" ->
                 /\ \E throws \in (IF t.command_str = "STRESS" /\ StressAllocates(t.args)
                                   THEN BOOLEAN ELSE {FALSE}) :
                      conn' = IF throws THEN Caught(t.conn, "std::bad_alloc")
                              ELSE Fulfil(t.conn, WorkerResultNoLock(db, t.command_str, t.args))
                 /\ BATCH_PROCESSING_SIZE' =
                      IF t.command_str = "BATCH" /\ _handle_batch(t.args).set
                      THEN _handle_batch(t.args).new_size ELSE BATCH_PROCESSING_SIZE
                 /\ db' = IF t.command_str = "STRESS" THEN StressState(db, t.args).engine ELSE db
                 /\ worker' = Finished(w)
                 /\ UNCHANGED data_mutex_
            [] mode = "exclusive" ->
                 /\ data_mutex_ = UnlockedData
                 /\ data_mutex_' = [data_mutex_ EXCEPT !.writer = w]
                 /\ worker' = [worker EXCEPT ![w].pc = "locked", ![w].view = db]
                 /\ UNCHANGED <<db, conn, BATCH_PROCESSING_SIZE>>
            [] mode = "shared" ->
                 /\ data_mutex_.writer = 0
                 /\ data_mutex_' = [data_mutex_ EXCEPT !.readers = @ \cup {w}]
                 /\ worker' = [worker EXCEPT ![w].pc = "locked", ![w].view = db]
                 /\ UNCHANGED <<db, conn, BATCH_PROCESSING_SIZE>>
    /\ UNCHANGED <<max_memory_bytes_, disk_ok, now_ms, queue_mutex_, task_queue_, stop_all_,
                   bg, main_pc>>

\* The critical section runs on the store it read, writes the store and the
\* lock is released. The first block of GET, JSON.GET and JSON.SEARCH, when it
\* has a result, is followed by the second one, which is the same in the
\* three; otherwise the handler returns and the worker sets the promise.
WorkerBody(w) ==
    /\ worker[w].pc = "locked"
    /\ LET t == worker[w].task
       IN IF t.command_str \in TwoBlocks /\ worker[w].phase = 1
          THEN LET r == Lookup(worker[w].view, t.command_str, t.args)
               IN /\ db' = db
                  /\ IF r.found
                     THEN /\ worker' = [worker EXCEPT ![w].pc = "run", ![w].phase = 2,
                                                      ![w].result_value = r.result_value,
                                                      ![w].view = FreshDb(NoFile)]
                          /\ conn' = conn
                     ELSE /\ worker' = Finished(w)
                          /\ conn' = Fulfil(t.conn, r.res)
          ELSE LET r == IF t.command_str \in TwoBlocks
                        THEN _handle_get_promote(worker[w].view, t.args, worker[w].result_value)
                        ELSE Handle(worker[w].view, t.command_str, t.args)
               IN /\ db' = r.db
                  /\ worker' = Finished(w)
                  /\ conn' = Fulfil(t.conn, r.res)
    /\ data_mutex_' = Release(w)
    /\ UNCHANGED <<max_memory_bytes_, BATCH_PROCESSING_SIZE, disk_ok, now_ms, queue_mutex_,
                   task_queue_, stop_all_, bg, main_pc>>


\* --------------------------------------------------- _background_manager
RECURSIVE SweepLoop(_, _)
\* the loop over expired_keys: a key no longer in kv_store_ is skipped, any
\* other is removed and counted as one dirty operation
SweepLoop(s, expired_keys) ==
    IF expired_keys = {} THEN s
    ELSE LET key == CHOOSE k \in expired_keys : TRUE
             s1 == IF key \notin DOMAIN s.kv_store_ THEN s
                   ELSE [DelOne(s, key) EXCEPT !.dirty_operations_ = @ + 1]
         IN SweepLoop(s1, expired_keys \ {key})

\* the keys of ttl_map_ with now_ms > deadline
ExpiredKeys(s) == {k \in DOMAIN s.ttl_map_ : now_ms > s.ttl_map_[k]}

\* while (!stop_all_) and the start of sleep_for
BgTop ==
    /\ bg = "top"
    /\ bg' = IF stop_all_ THEN "exited" ELSE "sleeping"
    /\ UNCHANGED <<db, max_memory_bytes_, BATCH_PROCESSING_SIZE, disk_ok, now_ms, data_mutex_,
                   queue_mutex_, task_queue_, stop_all_, worker, conn, main_pc>>

\* a background manager that waits for data_mutex_ (std::unique_lock without
\* std::try_to_lock)
BgLockWaits ==
    /\ bg = "sleeping"
    /\ data_mutex_ = UnlockedData
    /\ data_mutex_' = [data_mutex_ EXCEPT !.writer = BgThread]
    /\ bg' = "sweep"
    /\ UNCHANGED <<db, max_memory_bytes_, BATCH_PROCESSING_SIZE, disk_ok, now_ms, queue_mutex_,
                   task_queue_, stop_all_, worker, conn, main_pc>>

\* the sleep ends: try_to_lock on data_mutex_; without the lock the round is over
BgTryLock ==
    /\ bg = "sleeping"
    /\ IF data_mutex_ = UnlockedData
       THEN /\ data_mutex_' = [data_mutex_ EXCEPT !.writer = BgThread]
            /\ bg' = "sweep"
       ELSE /\ bg' = "top"
            /\ UNCHANGED data_mutex_
    /\ UNCHANGED <<db, max_memory_bytes_, BATCH_PROCESSING_SIZE, disk_ok, now_ms, queue_mutex_,
                   task_queue_, stop_all_, worker, conn, main_pc>>

\* the expired keys are removed; then the batch threshold decides on a save
BgSweep ==
    /\ bg = "sweep"
    /\ db' = SweepLoop(db, ExpiredKeys(db))
    /\ IF BATCH_PROCESSING_SIZE > 0 /\ db'.dirty_operations_ >= BATCH_PROCESSING_SIZE
       THEN /\ bg' = "save"
            /\ UNCHANGED data_mutex_
       ELSE /\ bg' = "top"
            /\ data_mutex_' = Release(BgThread)
    /\ UNCHANGED <<max_memory_bytes_, BATCH_PROCESSING_SIZE, disk_ok, now_ms, queue_mutex_,
                   task_queue_, stop_all_, worker, conn, main_pc>>

\* _save_to_file_unlocked(DATABASE_FILENAME) by the background manager
BgSave ==
    /\ bg = "save"
    /\ db' = _save_to_file_unlocked(db)
    /\ bg' = "top"
    /\ data_mutex_' = Release(BgThread)
    /\ UNCHANGED <<max_memory_bytes_, BATCH_PROCESSING_SIZE, disk_ok, now_ms, queue_mutex_,
                   task_queue_, stop_all_, worker, conn, main_pc>>

\* ------------------------------------------------------------ environment
\* a second passes on the system clock
Tick ==
    /\ now_ms < MaxTicks * MsPerSecond
    /\ now_ms' = now_ms + MsPerSecond
    /\ UNCHANGED <<db, max_memory_bytes_, BATCH_PROCESSING_SIZE, disk_ok, data_mutex_,
                   queue_mutex_, task_queue_, stop_all_, worker, conn, bg, main_pc>>

\* the snapshot file becomes unwritable, or writable again
DiskChange ==
    /\ disk_ok' = ~disk_ok
    /\ UNCHANGED <<db, max_memory_bytes_, BATCH_PROCESSING_SIZE, now_ms, data_mutex_,
                   queue_mutex_, task_queue_, stop_all_, worker, conn, bg, main_pc>>

\* ------------------------------------------------------------ main thread
\* accept() returns a socket and handle_client is started on it
Accept(c) ==
    /\ main_pc \in {"serving", "loaded"}
    /\ conn[c].pc = "none"
    /\ conn' = [conn EXCEPT ![c] = NewConn]
    /\ UNCHANGED <<db, max_memory_bytes_, BATCH_PROCESSING_SIZE, disk_ok, now_ms, data_mutex_,
                   queue_mutex_, task_queue_, stop_all_, worker, bg, main_pc>>

\* ~NukeKV: stop_all_ = true; condition_.notify_all()
Shutdown ==
    /\ main_pc = "serving"
    /\ stop_all_' = TRUE
    /\ worker' = [w \in Workers |->
                    IF worker[w].pc = "blocked" THEN [worker[w] EXCEPT !.pc = "woken"]
                    ELSE worker[w]]
    /\ main_pc' = "joining"
    /\ UNCHANGED <<db, max_memory_bytes_, BATCH_PROCESSING_SIZE, disk_ok, now_ms, data_mutex_,
                   queue_mutex_, task_queue_, conn, bg>>

\* every thread of the pool has returned
WorkersExited == \A w \in Workers : worker[w].pc \in {"none", "exited"}

\* ~NukeKV after the joins: the final save when dirty_operations_ > 0
FinalSave ==
    /\ main_pc = "joining"
    /\ WorkersExited
    /\ bg = "exited"
    /\ IF db.dirty_operations_ > 0
       THEN /\ data_mutex_ = UnlockedData
            /\ db' = _save_to_file_unlocked(db)
       ELSE db' = db
    /\ main_pc' = "done"
    /\ UNCHANGED <<max_memory_bytes_, BATCH_PROCESSING_SIZE, disk_ok, now_ms, data_mutex_,
                   queue_mutex_, task_queue_, stop_all_, worker, conn, bg>>

\* the threads of a new process with nworkers workers and no connection yet
StartedWorkers(nworkers) == [w \in Workers |-> IF w <= nworkers THEN NewWorker ELSE NoWorker]

\* The process has ended; a new process constructs NukeKV and calls
\* load_from_file on the snapshot file the old one left.
Restart ==
    /\ main_pc = "done"
    /\ \E order \in IterationOrders({p[1] : p \in db.file.store}) :
         db' = load_from_file(FreshDb(db.file), order)
    /\ main_pc' = "loaded"
    /\ stop_all_' = FALSE
    /\ worker' = StartedWorkers(Cardinality({w \in Workers : worker[w].pc # "none"}))
    /\ conn' = [c \in Conns |-> NoConn]
    /\ bg' = "top"
    /\ task_queue_' = <<>>
    /\ data_mutex_' = UnlockedData
    /\ queue_mutex_' = 0
    /\ BATCH_PROCESSING_SIZE' = 1
    /\ UNCHANGED <<max_memory_bytes_, disk_ok, now_ms>>

\* ---------------------------------------------------------- initial state
\* The state after NukeKV's constructor and load_from_file with no snapshot
\* file: nconns sockets accepted, nworkers workers started, the memory
\* limit maxmem (0 for none) and BATCH_PROCESSING_SIZE batch.
InitServer(nconns, nworkers, maxmem, batch) ==
    /\ db = FreshDb(NoFile)
    /\ max_memory_bytes_ = maxmem
    /\ BATCH_PROCESSING_SIZE = batch
    /\ disk_ok = TRUE
    /\ now_ms = 0
    /\ data_mutex_ = UnlockedData
    /\ queue_mutex_ = 0
    /\ task_queue_ = <<>>
    /\ stop_all_ = FALSE
    /\ worker = StartedWorkers(nworkers)
    /\ conn = [c \in Conns |-> IF c <= nconns THEN NewConn ELSE NoConn]
    /\ bg = "top"
    /\ main_pc = "serving"

\* the steps of the worker threads
WorkerStep == \E w \in Workers : WorkerTop(w) \/ WorkerPred(w) \/ WorkerBlock(w)
                                  \/ WorkerWake(w) \/ WorkerRun(w) \/ WorkerBody(w)


\* ------------------------------------------------- K connections, INCR only
\* MAX_RAM_GB * 1024 * 1024 * 1024 for MAX_RAM_GB = 1
GiB == 1073741824

IncrLines == {"INCR c"}

InitIncr ==
    \E maxmem \in {0, GiB} : InitServer(NumConns, NumWorkers, maxmem, 1)

\* a client sends INCR c until it has sent MaxCmds frames
IncrRecv(c) == Len(conn[c].sent) < MaxCmds /\ ClientRecv(c, IncrLines)

NextIncr ==
    \/ \E c \in Conns : IncrRecv(c) \/ ClientSend(c)
    \/ WorkerStep

SpecIncr == InitIncr /\ [][NextIncr]_vars

\* every connection has sent MaxCmds commands and has its replies
AllReplied == \A c \in Conns : Len(conn[c].sent) = MaxCmds /\ Len(conn[c].replies) = MaxCmds

\* the replies of all connections, each with its connection and position
AllReplies == {<<c, i, conn[c].replies[i]>> : c \in Conns, i \in 1..MaxCmds}

\* C1: when NumConns connections have each issued INCR c MaxCmds times on a
\* key that was absent, the stored value is NumConns * MaxCmds and the
\* replies are the values 1..NumConns * MaxCmds, each once, whatever the
\* interleaving of the threads.
C1_NoLostUpdates ==
    AllReplied =>
        /\ "c" \in DOMAIN db.kv_store_
        /\ db.kv_store_["c"] = to_string(NumConns * MaxCmds)
        /\ {r[3] : r \in AllReplies} = {to_string(n) : n \in 1..(NumConns * MaxCmds)}

\* the INCRs of two connections were served alternately and all were answered
C1_Witness ==
    /\ AllReplied
    /\ conn[1].replies[1] = "2"
    /\ conn[2].replies[1] = "1"
    /\ db.kv_store_["c"] = to_string(NumConns * MaxCmds)


\* ------------------------------------- a connection served alone, in order
\* The reply handle_client sends for one frame when no other thread touches
\* the store between its steps, and the store the command leaves.
ServeAlone(s, line) ==
    LET parsed == parse_command_line(line)
        command == IF parsed = <<>> THEN "" ELSE toupper(parsed[1])
        args == IF parsed = <<>> THEN <<>> ELSE Tail(parsed)
    IN IF parsed = <<>> THEN Ret(s, 400, "-ERR empty command")
       ELSE IF command = "QUIT" THEN Ret(s, 200, "+OK Bye")
       ELSE IF command = "PING" THEN Ret(s, 200, "+PONG")
       ELSE IF LockMode(command, args) = "none"
       THEN [db |-> s, res |-> WorkerResultNoLock(s, command, args)]
       ELSE IF command = "GET"
       THEN LET r == _handle_get_lookup(s, args)
            IN IF r.found THEN _handle_get_promote(s, args, r.result_value)
               ELSE Ret(s, 404, "(nil)")
       ELSE Handle(s, command, args)

RECURSIVE ServeAllAlone(_, _, _)
\* the replies to the frames lines[i..] served alone from the store s
ServeAllAlone(s, lines, i) ==
    IF i > Len(lines) THEN <<>>
    ELSE LET r == ServeAlone(s, lines[i])
         IN <<r.res.text>> \o ServeAllAlone(r.db, lines, i + 1)

\* the tasks of connection c that are queued or held by a worker
TasksOf(c) ==
    Cardinality({i \in 1..Len(task_queue_) : task_queue_[i].conn = c})
    + Cardinality({w \in Workers : worker[w].task.conn = c})

\* ------------------------------ K connections, SET and GET on their own keys
OwnKey(c) == "k" \o to_string(c)

\* the frames connection c may send: SET and GET on its own key
ConcLines(c) ==
    {"SET " \o OwnKey(c) \o " \"a\"", "SET " \o OwnKey(c) \o " \"b\"", "GET " \o OwnKey(c)}

ConcRecv(c) == Len(conn[c].sent) < MaxCmds /\ ClientRecv(c, ConcLines(c))

\* the memory limit is set and far from being reached, so that the LRU list
\* is kept
InitConc == InitServer(NumConns, NumWorkers, GiB, 1)

NextConc ==
    \/ \E c \in Conns : ConcRecv(c) \/ ClientSend(c)
    \/ WorkerStep

SpecConc == InitConc /\ [][NextConc]_vars

\* C2: on every connection the replies come in the order of the commands:
\* at most one command of a connection is unanswered, at most one task of
\* the connection exists and only while the connection waits for it, and
\* the i-th reply is the reply to the i-th command on the store as the
\* connection's commands 1..i-1 left it.
C2_PerConnectionOrder ==
    \A c \in Conns :
        /\ Len(conn[c].replies) <= Len(conn[c].sent)
        /\ Len(conn[c].sent) <= Len(conn[c].replies) + 1
        /\ TasksOf(c) <= 1
        /\ TasksOf(c) = 1 => conn[c].pc = "wait" /\ conn[c].promise_sets = 0
        /\ conn[c].pc = "recv" => Len(conn[c].replies) = Len(conn[c].sent)
        /\ LET alone == ServeAllAlone(FreshDb(NoFile), conn[c].sent, 1)
           IN \A i \in 1..Len(conn[c].replies) : conn[c].replies[i] = alone[i]

\* connection 1 has set its key and read the value back while connection 2,
\* which has set its key to another value, waits for its second reply
C2_Witness ==
    /\ conn[1].sent = <<"SET k1 \"b\"", "GET k1">>
    /\ conn[1].replies = <<"+OK", "b">>
    /\ conn[2].sent = <<"SET k2 \"a\"", "GET k2">>
    /\ conn[2].replies = <<"+OK">>
    /\ conn[2].pc = "wait"

\* the value of the last SET among lines[1..i-1], or (nil) when there is none
LastSet(lines, i) ==
    LET sets == {j \in 1..(i - 1) : toupper(parse_command_line(lines[j])[1]) = "SET"}
    IN IF sets = {} THEN "(nil)" ELSE parse_command_line(lines[Max(sets)])[3]

\* C9: with every connection working on its own key, no TTL and the memory
\* limit not reached, every GET is answered with the value the same
\* connection set last for the key, (nil) when it has set none, whatever
\* the interleaving with the other connections.
C9_DisjointKeysIsolated ==
    \A c \in Conns : \A i \in 1..Len(conn[c].replies) :
        toupper(parse_command_line(conn[c].sent[i])[1]) = "GET"
            => conn[c].replies[i] = LastSet(conn[c].sent, i)

\* both connections have set different values on their keys and each has
\* read its own value back
C9_Witness ==
    /\ conn[1].sent = <<"SET k1 \"a\"", "GET k1">>
    /\ conn[2].sent = <<"SET k2 \"b\"", "GET k2">>
    /\ conn[1].replies = <<"+OK", "a">>
    /\ conn[2].replies = <<"+OK", "b">>


\* the steps of the background manager
BgStep == BgTop \/ BgTryLock \/ BgSweep \/ BgSave

\* ------------------------------------ one connection, a key with a deadline
TtlLines == {"SET k \"v\" EX 1", "GET k", "TTL k"}

TtlRecv(c) == Len(conn[c].sent) < MaxCmds /\ ClientRecv(c, TtlLines)

InitTTL == InitServer(1, 1, 0, 1)

NextTTL ==
    \/ \E c \in Conns : TtlRecv(c) \/ ClientSend(c)
    \/ WorkerStep
    \/ BgStep
    \/ Tick

SpecTTL == InitTTL /\ [][NextTTL]_vars

\* the worker w sets the promise of a GET or TTL on a key whose deadline in
\* ttl_map_ had passed when the worker took the task
AnswersExpired(w) ==
    LET t == worker[w].task
    IN /\ t.command_str \in {"GET", "TTL"}
       /\ Len(t.args) = 1
       /\ conn'[t.conn].promise_sets = conn[t.conn].promise_sets + 1
       /\ t.args[1] \in DOMAIN db.ttl_map_
       /\ worker[w].called_ms > db.ttl_map_[t.args[1]]

\* C3: a GET or TTL on a key whose deadline has passed before the command
\* is executed is answered (nil), whether or not the background manager has
\* removed the key.
C3_ExpiredNeverVisible ==
    [][\A w \in Workers :
          AnswersExpired(w) => conn'[worker[w].task.conn].result.text = "(nil)"]_vars


\* ----------------------------------- one connection, every kind of outcome
\* the frames of the connection: an empty command, PING, QUIT, an unknown
\* command, a handler error, a handler that may throw, not-found and success
ReplyLines == {"", "PING", "QUIT", "FOO", "INCR a x", "STRESS 1", "GET a", "INCR a"}

ReplyRecv(c) == Len(conn[c].sent) < MaxCmds /\ ClientRecv(c, ReplyLines)

InitReply == InitServer(1, NumWorkers, 0, 1)

NextReply ==
    \/ \E c \in Conns : ReplyRecv(c) \/ ClientSend(c) \/ ClientSendFail(c) \/ ClientEof(c)
    \/ WorkerStep

\* The threads of the server do not all stop while one of them can take a
\* step: a connection thread sends its reply (to a peer that is there, or
\* gone) or a worker thread goes on in its loop.
FairReply ==
    WF_vars((\E c \in Conns : ClientSend(c) \/ ClientSendFail(c)) \/ WorkerStep)

SpecReply == InitReply /\ [][NextReply]_vars /\ FairReply

\* the replies never outnumber the frames, a promise is set at most once,
\* and a connection that is back at recv_message, or closed, has one reply
\* for each frame it received
OneReplyEach ==
    \A c \in Conns :
        /\ conn[c].promise_sets <= 1
        /\ conn[c].pc \in {"recv", "closed"} => Len(conn[c].replies) = Len(conn[c].sent)
        /\ conn[c].pc \in {"send", "wait"} => Len(conn[c].replies) + 1 = Len(conn[c].sent)

\* C4: every frame received on a connection gets exactly one reply: never
\* two (the replies are as many as the frames once the connection is back
\* at reading or has closed after QUIT, and one fewer while a frame is being
\* served), never none (a connection that serves a frame comes back to
\* reading or closes after the reply to QUIT, unless the peer is gone and
\* the reply cannot be sent).
C4_ExactlyOneReply ==
    /\ []OneReplyEach
    /\ \A c \in Conns :
          (conn[c].pc \in {"send", "wait"}) ~> (conn[c].pc \in {"recv", "closed", "lost"})

\* connection 1 got a reply to an unknown command and to a STRESS that threw,
\* one each
C4_Witness ==
    /\ conn[1].sent = <<"FOO", "STRESS 1">>
    /\ conn[1].replies = <<"-ERR unknown command 'FOO'", "-ERR worker exception: std::bad_alloc">>
    /\ conn[1].pc = "recv"


\* ------------------------------- failing commands beside a second connection
\* the frames of connection 1: an unknown command, a handler error, a
\* handler that may throw, and a command that succeeds
ErrLines == {"FOO", "INCR a x", "STRESS 1", "INCR a"}

\* the frames of another connection c: INCR on its own key
OtherLines(c) == {"INCR " \o OwnKey(c)}

ErrRecv(c) ==
    /\ Len(conn[c].sent) < MaxCmds
    /\ ClientRecv(c, IF c = 1 THEN ErrLines ELSE OtherLines(c))

InitErr == InitServer(NumConns, NumWorkers, 0, 1)

NextErr ==
    \/ \E c \in Conns : ErrRecv(c) \/ ClientSend(c)
    \/ WorkerStep

SpecErr == InitErr /\ [][NextErr]_vars

\* the number of frames equal to line among lines[1..i]
CountOf(lines, line, i) == Cardinality({j \in 1..i : lines[j] = line})

\* the replies connection 1 may get to its i-th frame
ErrReplies(lines, i) ==
    CASE lines[i] = "FOO" -> {"-ERR unknown command 'FOO'"}
      [] lines[i] = "INCR a x" -> {"-ERR not an integer"}
      [] lines[i] = "STRESS 1" -> {"-ERR worker exception: std::bad_alloc",
                                   "Stress Test running for 1 ops ..."}
      [] OTHER -> {to_string(CountOf(lines, "INCR a", i))}

\* C10: a command that is unknown, whose handler returns an error or whose
\* handler throws gets its promise set once, with the error reply; no worker
\* thread ends and no connection is closed; the commands that follow on the
\* same connection are served as if the failed ones had not been sent (INCR
\* a counts the INCRs alone), and the other connections get the replies
\* they get without the failures (INCR on their own key counts 1, 2, ...).
C10_ErrorIsolation ==
    /\ \A w \in Workers : worker[w].pc # "exited"
    /\ \A c \in Conns : conn[c].pc # "closed" /\ conn[c].promise_sets <= 1
    /\ \A i \in 1..Len(conn[1].replies) : conn[1].replies[i] \in ErrReplies(conn[1].sent, i)
    /\ \A c \in Conns \ {1} : \A i \in 1..Len(conn[c].replies) : conn[c].replies[i] = to_string(i)
    /\ DOMAIN db.kv_store_ \subseteq {"a"} \cup {OwnKey(c) : c \in Conns \ {1}}

\* the handler of connection 1 threw, its next command was served, and
\* connection 2 was served throughout
C10_Witness ==
    /\ conn[1].sent = <<"STRESS 1", "INCR a">>
    /\ conn[1].replies = <<"-ERR worker exception: std::bad_alloc", "1">>
    /\ conn[2].replies = <<"1", "2">>
    /\ \A w \in Workers : worker[w].pc \in {"blocked", "top", "pred", "prewait"}


\* --------------------------------------------- the destructor while serving
ShutLines == {"INCR c"}

\* the clients send nothing once the stop flag is set
ShutRecv(c) == ~stop_all_ /\ Len(conn[c].sent) < MaxCmds /\ ClientRecv(c, ShutLines)

InitShutdown == \E nworkers \in 1..NumWorkers : InitServer(NumConns, nworkers, 0, 1)

NextShutdown ==
    \/ \E c \in Conns : ShutRecv(c) \/ ClientSend(c)
    \/ WorkerStep
    \/ BgStep
    \/ Shutdown
    \/ FinalSave

SpecShutdown == InitShutdown /\ [][NextShutdown]_vars

\* C5: once the stop flag is set and every worker thread has returned, the
\* task queue is empty and every connection that dispatched a task (all
\* tasks were queued before the stop flag was set) has its promise set.
C5_ShutdownDrain ==
    (stop_all_ /\ WorkersExited) =>
        /\ task_queue_ = <<>>
        /\ \A c \in Conns : conn[c].pc = "wait" => conn[c].promise_sets = 1


\* --------------------------------- save, end of the process, a new process
PersistLines == {"SET k \"v\" EX 1", "GET k"}

PersistRecv(c) == Len(conn[c].sent) < MaxCmds /\ ClientRecv(c, PersistLines)

\* one client connects to each process
PersistAccept(c) == c = 1 /\ Accept(c)

InitPersist == InitServer(0, 1, 0, 1)

NextPersist ==
    \/ \E c \in Conns : PersistAccept(c) \/ PersistRecv(c) \/ ClientSend(c)
    \/ WorkerStep
    \/ BgStep
    \/ Tick
    \/ DiskChange
    \/ Shutdown
    \/ FinalSave
    \/ Restart

SpecPersist == InitPersist /\ [][NextPersist]_vars

\* the deadline the snapshot file holds for key has passed
ExpiredInFile(file, key) == \E q \in file.ttl : q[1] = key /\ now_ms > q[2]

\* the step is load_from_file in a new process
LoadStep == main_pc = "done" /\ main_pc' = "loaded"

\* C6: a snapshot that is written holds the value map and the TTL map as
\* they are; a new process that loads the snapshot has no key beyond the
\* snapshot's, has every key whose deadline has not passed with the value
\* and the deadline of the snapshot, and has no key whose deadline has
\* passed at load time.
C6_PersistenceRoundTrip ==
    [][/\ db'.file # db.file =>
            /\ Undump(db'.file.store) = db.kv_store_
            /\ Undump(db'.file.ttl) = db.ttl_map_
       /\ LoadStep =>
            /\ DOMAIN db'.kv_store_ \subseteq {p[1] : p \in db.file.store}
            /\ \A p \in db.file.store :
                  IF ExpiredInFile(db.file, p[1])
                  THEN p[1] \notin DOMAIN db'.kv_store_
                  ELSE /\ p[1] \in DOMAIN db'.kv_store_
                       /\ db'.kv_store_[p[1]] = p[2]
                       /\ \A q \in db.file.ttl :
                             q[1] = p[1] => /\ p[1] \in DOMAIN db'.ttl_map_
                                            /\ db'.ttl_map_[p[1]] = q[2]]_vars

\* the step is a call of _save_to_file_unlocked(DATABASE_FILENAME) by the
\* background manager or by the destructor
SaveStep ==
    \/ bg = "save" /\ bg' = "top"
    \/ main_pc = "joining" /\ main_pc' = "done" /\ db.dirty_operations_ > 0

\* C7: a save that writes the snapshot file leaves the dirty counter at 0
\* and the store in the file; a save that cannot open the file leaves the
\* dirty counter as it was.
C7_DirtyCounterOnSave ==
    [][SaveStep =>
          IF disk_ok
          THEN db'.dirty_operations_ = 0 /\ db'.file = Dump(db)
          ELSE db'.dirty_operations_ = db.dirty_operations_ /\ db'.file = db.file]_vars


\* ------------------------------------------- eviction at the memory limit
\* The limit max_memory_bytes_ and the sizes of keys and values are counted
\* in units of 2^26 bytes: a character of a key or a value stands for 2^26
\* bytes, the keys are of 2 units, the values of 3. _enforce_memory_limit
\* only compares sums of sizes with the limit.
LruLines ==
    {"SET k1 \"vvv\"", "SET k2 \"vvv\"", "SET k3 \"vvv\"", "SET k4 \"vvv\"", "GET k1"}

LruRecv(c) == Len(conn[c].sent) < LruCmds /\ ClientRecv(c, LruLines)

InitLRU == InitServer(1, 1, LruLimit, 1)

NextLRU ==
    \/ \E c \in Conns : LruRecv(c) \/ ClientSend(c)
    \/ WorkerStep

SpecLRU == InitLRU /\ [][NextLRU]_vars

\* connection 1 has sent exactly the frames lines and has all the replies
Answered(lines) ==
    conn[1].sent = lines /\ conn[1].replies # <<>> /\ Len(conn[1].replies) = Len(lines)

\* C8: with a limit under which three of the pairs fit and four do not,
\* after SET k1, k2, k3, k4 exactly k1 is evicted; after SET k1, k2, k3, GET
\* k1, SET k4 exactly k2 is evicted.
C8_LruEvictionOrder ==
    /\ Answered(<<"SET k1 \"vvv\"", "SET k2 \"vvv\"", "SET k3 \"vvv\"", "SET k4 \"vvv\"">>)
          => DOMAIN db.kv_store_ = {"k2", "k3", "k4"}
    /\ Answered(<<"SET k1 \"vvv\"", "SET k2 \"vvv\"", "SET k3 \"vvv\"", "GET k1", "SET k4 \"vvv\"">>)
          => DOMAIN db.kv_store_ = {"k1", "k3", "k4"}


\* ------------------------------------ a framed connection beside the others
\* the messages the peer of connection 1 passes to send_message
FrameMsgs == {"", "hi"}

\* the headers a peer of its own making writes: MAX_PAYLOAD_SIZE + 1,
\* MAX_PAYLOAD_SIZE, and the first eight bytes of an HTTP request
RawHeaders == {<<0, 0, 0, 0, 64, 0, 0, 1>>, <<0, 0, 0, 0, 64, 0, 0, 0>>, c_str("GET / HT")}

\* the peer of connection c
FramePeer(c) ==
    \/ Len(conn[c].peer.msgs) < MaxCmds /\ PeerSendMessage(c, FrameMsgs)
    \/ PeerSend(c)
    \/ PeerClose(c)
    \/ PeerRaw(c, RawHeaders)

\* recv_message in the handle_client thread of connection c
FrameServer(c) == SockRecv(c) \/ SockRecvEnd(c) \/ RecvTooLong(c) \/ RecvMessage(c)

\* another connection, which sends INCR on its own key
FrameOtherRecv(c) == Len(conn[c].sent) < MaxCmds /\ ClientRecv(c, OtherLines(c))

InitFrame == InitServer(NumConns, 1, 0, 1)

NextFrame ==
    \/ FramePeer(1)
    \/ FrameServer(1)
    \/ \E c \in Conns \ {1} : FrameOtherRecv(c)
    \/ \E c \in Conns : ClientSend(c)
    \/ WorkerStep

SpecFrame == InitFrame /\ [][NextFrame]_vars

\* recv_message of connection c holds a complete header whose value is
\* greater than MAX_PAYLOAD_SIZE
Oversized(c) ==
    /\ Len(Pending(c)) >= 8
    /\ LET h == SubSeq(Pending(c), 1, 8)
       IN \/ \E i \in 1..4 : h[i] # 0
          \/ h[5] > 64
          \/ h[5] = 64 /\ (h[6] # 0 \/ h[7] # 0 \/ h[8] # 0)

\* C11: once the header of a frame declares more than MAX_PAYLOAD_SIZE bytes
\* the thread of that connection reads no further byte, takes no frame from
\* the stream, sends no reply and queues no task; the only step it takes is
\* to close the socket, and that step changes neither the store nor the
\* queue nor the workers nor another connection. The other connections are
\* never closed and get the replies they get without it (INCR on their own
\* key counts 1, 2, ...), and no worker ends.
C11_OversizedFrame ==
    /\ [][\A c \in Conns :
            (Oversized(c) /\ conn[c].pc = "recv")
            => /\ conn'[c].pc \in {"recv", "closed"}
               /\ conn'[c].rx = conn[c].rx
               /\ conn'[c].sent = conn[c].sent
               /\ conn'[c].replies = conn[c].replies
               /\ TasksOf(c)' = 0
               /\ conn'[c].pc = "closed"
                  => /\ UNCHANGED <<db, task_queue_, worker, BATCH_PROCESSING_SIZE>>
                     /\ \A d \in Conns \ {c} : conn'[d] = conn[d]]_vars
    /\ [](\A c \in Conns : Oversized(c) => conn[c].pc \in {"recv", "closed"})
    /\ [](\A d \in Conns \ {1} :
            /\ conn[d].pc \notin {"closed", "lost"}
            /\ \A i \in 1..Len(conn[d].replies) : conn[d].replies[i] = to_string(i))
    /\ [](\A w \in Workers : worker[w].pc # "exited")

\* connection 1 was served a frame and then closed on the first bytes of an
\* HTTP request, without a reply to it; connection 2 was served throughout
C11_Witness ==
    /\ conn[1].pc = "closed"
    /\ Oversized(1)
    /\ Pending(1) = c_str("GET / HT")
    /\ conn[1].sent = <<"hi">>
    /\ conn[1].replies = <<"-ERR unknown command 'HI'">>
    /\ conn[2].replies = <<"1", "2">>


\* the 8-byte big-endian image of a length below 256
BigEndian8(len) == <<0, 0, 0, 0, 0, 0, 0, len>>

RECURSIVE FramesOf(_)
\* the stream that holds the frames of the messages msgs, one after another
FramesOf(msgs) ==
    IF msgs = <<>> THEN <<>>
    ELSE BigEndian8(Len(Head(msgs))) \o c_str(Head(msgs)) \o FramesOf(Tail(msgs))

IsPrefix(a, b) == Len(a) <= Len(b) /\ a = SubSeq(b, 1, Len(a))

\* C20: what the send_message calls of the peer write is the stream of the
\* frames of their messages, each an 8-byte big-endian length and the body
\* (a prefix of it while a call is under way or was cut off); the messages
\* recv_message returns are those messages, in order, whatever the sizes of
\* the single send and recv calls; and recv_message reports the end of the
\* connection only when the stream has ended with the next frame incomplete
\* (no complete frame is dropped), which it then can do.
C20_FramingRoundTrip ==
    LET P == conn[1].peer
        written == conn[1].rx \o conn[1].wire
        delivered == Len(conn[1].sent)
        next_incomplete ==
            delivered < Len(P.msgs)
            => Len(conn[1].rx) < Consumed(conn[1].sent) + 8 + Len(P.msgs[delivered + 1])
    IN ~P.raw =>
         /\ IsPrefix(written, FramesOf(P.msgs))
         /\ (P.out = <<>> /\ ~P.closed) => written = FramesOf(P.msgs)
         /\ delivered <= Len(P.msgs)
         /\ \A i \in 1..delivered : conn[1].sent[i] = P.msgs[i]
         /\ conn[1].pc = "closed" => (P.closed /\ conn[1].wire = <<>> /\ next_incomplete)
         /\ (conn[1].pc = "recv" /\ P.closed /\ conn[1].wire = <<>> /\ next_incomplete
             /\ Len(conn[1].rx) < Len(FramesOf(P.msgs)))
            => Wanted(1) > 0

\* "hi" went through; of a second frame of "hi" the peer wrote the header and
\* one byte of the body before its end closed, and the server, having read
\* them, reported the end of the connection
C20_Witness ==
    /\ conn[1].sent = <<"hi">>
    /\ conn[1].peer.msgs = <<"hi", "hi">>
    /\ conn[1].peer.closed
    /\ Len(Pending(1)) = 9
    /\ conn[1].pc = "closed"
    /\ conn[1].replies = <<"-ERR unknown command 'HI'">>


\* ------------------------------------- SET and GET through the parser
\* the values of the round trip: plain, with a space, with an escaped quote,
\* empty, and with the substring " EX "
RoundTripValues == {"v", "a b", "a\\\"b", "", "a EX b"}

\* the command line SET k "v"
SetLine(key, value) == "SET " \o key \o " \"" \o value \o "\""

ParseLines == {SetLine("k", v) : v \in RoundTripValues} \cup {"GET k"}

ParseRecv(c) == Len(conn[c].sent) < MaxCmds /\ ClientRecv(c, ParseLines)

InitParse == InitServer(1, 1, 0, 1)

NextParse ==
    \/ \E c \in Conns : ParseRecv(c) \/ ClientSend(c)
    \/ WorkerStep

SpecParse == InitParse /\ [][NextParse]_vars

\* C12: SET k "v" is answered +OK, and a GET k that follows it is answered v,
\* for each of the values: with a space, with an escaped quote, empty, and
\* with the substring " EX ".
C12_SetGetRoundTrip ==
    \A c \in Conns : \A v \in RoundTripValues :
        /\ (Len(conn[c].replies) >= 1 /\ conn[c].sent[1] = SetLine("k", v))
           => conn[c].replies[1] = "+OK"
        /\ (Len(conn[c].replies) = 2 /\ conn[c].sent = <<SetLine("k", v), "GET k">>)
           => conn[c].replies[2] = v


\* ------------------------------------------------------------------- DEL
DelLines == {"SET a \"1\"", "SET b \"2\" EX 5", "DEL a x a", "DEL b a"}

DelRecv(c) == Len(conn[c].sent) < SeqCmds /\ ClientRecv(c, DelLines)

\* the memory limit is set, so that the LRU structures are kept, and is not
\* reached
InitDel == InitServer(1, 1, GiB, 1)

NextDel ==
    \/ \E c \in Conns : DelRecv(c) \/ ClientSend(c)
    \/ WorkerStep

SpecDel == InitDel /\ [][NextDel]_vars

\* the elements of a sequence
Range(seq) == {seq[i] : i \in 1..Len(seq)}

RECURSIVE SizeOfPairs(_, _)
\* the sum of key.size() + value.size() over the keys K of the map m
SizeOfPairs(m, K) ==
    IF K = {} THEN 0
    ELSE LET k == CHOOSE x \in K : TRUE
         IN Len(k) + Len(m[k]) + SizeOfPairs(m, K \ {k})

RECURSIVE Without(_, _)
\* the list with the members of K taken out, the order of the others kept
Without(list, K) ==
    IF list = <<>> THEN <<>>
    ELSE IF Head(list) \in K THEN Without(Tail(list), K)
    ELSE <<Head(list)>> \o Without(Tail(list), K)

\* C13: the step in which _handle_del runs on the keys listed answers with
\* the number of listed keys that were in kv_store_ before it; after it the
\* listed keys are in none of kv_store_, ttl_map_, lru_map_ and lru_list_,
\* the memory estimate is smaller by the sizes of the pairs removed, and the
\* other keys have the values, deadlines and LRU order they had.
C13_DelRemovesListed ==
    [][\A w \in Workers :
         (worker[w].pc = "locked" /\ worker[w].task.command_str = "DEL" /\ worker'[w].pc # "locked")
         => LET listed == Range(worker[w].task.args)
                present == listed \cap DOMAIN db.kv_store_
                c == worker[w].task.conn
            IN /\ conn'[c].result = Result(200, to_string(Cardinality(present)))
               /\ DOMAIN db'.kv_store_ = DOMAIN db.kv_store_ \ listed
               /\ \A k \in DOMAIN db'.kv_store_ : db'.kv_store_[k] = db.kv_store_[k]
               /\ DOMAIN db'.ttl_map_ = DOMAIN db.ttl_map_ \ listed
               /\ \A k \in DOMAIN db'.ttl_map_ : db'.ttl_map_[k] = db.ttl_map_[k]
               /\ db'.lru_map_ = db.lru_map_ \ listed
               /\ db'.lru_list_ = Without(db.lru_list_, listed)
               /\ db'.estimated_memory_usage_
                    = db.estimated_memory_usage_ - SizeOfPairs(db.kv_store_, present)]_vars

\* DEL a x a after SET a and SET b with a deadline: one key removed, b left
\* as it was
C13_Witness ==
    /\ conn[1].sent = <<"SET a \"1\"", "SET b \"2\" EX 5", "DEL a x a">>
    /\ conn[1].replies = <<"+OK", "+OK", "1">>
    /\ db.kv_store_ = [k \in {"b"} |-> "2"]
    /\ db.ttl_map_ = [k \in {"b"} |-> 5 * MsPerSecond]
    /\ db.lru_list_ = <<"b">>
    /\ db.estimated_memory_usage_ = 2


\* ----------------------------------------------------------- INCR and DECR
NumLines == {"INCR n", "INCR n 5", "DECR n 2", "SET n \"abc\"", "SET n \"12abc\"", "SET n \"-3\""}

NumRecv(c) == Len(conn[c].sent) < SeqCmds /\ ClientRecv(c, NumLines)

InitNum == InitServer(1, 1, 0, 1)

NextNum ==
    \/ \E c \in Conns : NumRecv(c) \/ ClientSend(c)
    \/ WorkerStep

SpecNum == InitNum /\ [][NextNum]_vars

\* the text is a decimal integer: an optional minus sign and digits, no more
IsDecimal(str) ==
    LET digits == IF str # "" /\ At(str, 0) = "-" THEN Tail(str) ELSE str
    IN digits # "" /\ \A i \in 0..(Len(digits) - 1) : isdigit(At(digits, i))

\* the value of the text of a decimal integer
DecimalValue(str) ==
    IF At(str, 0) = "-" THEN 0 - DigitsValue(str, 1, Len(str) - 1)
    ELSE DigitsValue(str, 0, Len(str))

\* the text n holds after a frame when it held cur before ("" for absent),
\* and the reply to the frame: SET stores its value; INCR and DECR take an
\* absent n as 0, answer and store current + amount or current - amount, and
\* answer -ERR not an integer, storing nothing, when cur is not a decimal
\* integer
NumStep(line, cur) ==
    LET args == parse_command_line(line)
    IN IF args[1] = "SET" THEN [reply |-> "+OK", cur |-> args[3]]
       ELSE IF cur # "" /\ ~IsDecimal(cur) THEN [reply |-> "-ERR not an integer", cur |-> cur]
       ELSE LET current == IF cur = "" THEN 0 ELSE DecimalValue(cur)
                amount == IF Len(args) = 3 THEN DecimalValue(args[3]) ELSE 1
                new == to_string(IF args[1] = "INCR" THEN current + amount
                                 ELSE current - amount)
            IN [reply |-> new, cur |-> new]

RECURSIVE NumRun(_, _)
\* the replies to the frames lines[1..i] and the text n holds after them
NumRun(lines, i) ==
    IF i = 0 THEN [replies |-> <<>>, cur |-> ""]
    ELSE LET before == NumRun(lines, i - 1)
             step == NumStep(lines[i], before.cur)
         IN [replies |-> Append(before.replies, step.reply), cur |-> step.cur]

\* C14: INCR and DECR take an absent key as 0 and a stored decimal integer as
\* its value, answer with the decimal text of current + amount or current -
\* amount (amount 1 when not given) and store it; on a stored value that is
\* not a decimal integer (text, or digits followed by other characters) they
\* answer -ERR not an integer and leave the value as it is.
C14_IncrDecr ==
    \A c \in Conns :
        (conn[c].pc = "recv" /\ conn[c].sent # <<>>)
        => LET run == NumRun(conn[c].sent, Len(conn[c].sent))
           IN /\ conn[c].replies = run.replies
              /\ db.kv_store_ = [k \in {"n"} |-> run.cur]


\* ----------------------------------------------------------- strict quoting
\* command lines whose value is not in the required quotes, or that have a
\* token after the closing quote that is no part of " EX <seconds>"
BadQuoteLines ==
    {"SET k v", "SET k \"v\" extra", "UPDATE k v", "UPDATE k \"v\" extra",
     "JSON.SET k [1]", "JSON.SET k '[1]' extra",
     "JSON.APPEND k [1]", "JSON.APPEND k '[1]' extra",
     "SET k \"v\" EX 10 extra"}

QuoteLines == BadQuoteLines \cup {"SET k \"v with spaces\""}

QuoteRecv(c) == Len(conn[c].sent) < MaxCmds /\ ClientRecv(c, QuoteLines)

InitQuote == InitServer(1, 1, 0, 1)

NextQuote ==
    \/ \E c \in Conns : QuoteRecv(c) \/ ClientSend(c)
    \/ WorkerStep

SpecQuote == InitQuote /\ [][NextQuote]_vars

\* C15: a SET, UPDATE, JSON.SET or JSON.APPEND line whose value is not in the
\* required quotes, or that has an extra token after the closing quote, is
\* answered with a "wrong number of arguments" error and changes nothing in
\* the store; SET k "v with spaces" parses to SET, k, v with spaces and is
\* the only line of the scenario that writes.
C15_StrictQuoting ==
    /\ parse_command_line("SET k \"v with spaces\"") = <<"SET", "k", "v with spaces">>
    /\ \A c \in Conns : \A i \in 1..Len(conn[c].replies) :
         IF conn[c].sent[i] \in BadQuoteLines
         THEN StartsWith(conn[c].replies[i], "-ERR wrong number of arguments")
         ELSE conn[c].replies[i] = "+OK"
    /\ db.kv_store_ \in {EmptyMap, [k \in {"k"} |-> "v with spaces"]}
    /\ db.ttl_map_ = EmptyMap
    /\ db.dirty_operations_
         <= Cardinality({i \in 1..Len(conn[1].sent) : conn[1].sent[i] \notin BadQuoteLines})


\* ------------------------------------------------------------------ STRESS
StressLines == {"STRESS 1", "STRESS 2", "STRESS 0", "STRESS x", "STRESS"}

\* the commands of the other connections: a key that is also one of the
\* benchmark's, a key with a deadline, a removal
StressOtherLines == {"SET stress:0 \"x\"", "SET a \"1\" EX 5", "DEL stress:0"}

\* connection 1 sends STRESS, the others write
StressRecv(c) ==
    /\ Len(conn[c].sent) < MaxCmds
    /\ ClientRecv(c, IF c = 1 THEN StressLines ELSE StressOtherLines)

\* every write saves the snapshot file (BATCH_PROCESSING_SIZE is 0)
InitStress == InitServer(NumConns, NumWorkers, GiB, 0)

NextStress ==
    \/ \E c \in Conns : StressRecv(c) \/ ClientSend(c)
    \/ WorkerStep

SpecStress == InitStress /\ [][NextStress]_vars

\* C16: the step in which a worker runs _handle_stress leaves the engine
\* (the value map, the TTL map, the LRU list and map, the memory estimate,
\* the dirty counter and the snapshot file) as it was, whatever the argument
\* and whatever the other workers hold; and as long as no other connection
\* has sent a command the engine is the freshly constructed one.
C16_StressIsolation ==
    /\ [][\A w \in Workers :
            (worker[w].pc = "run" /\ worker[w].task.command_str = "STRESS" /\ worker'[w].pc # "run")
            => db' = db]_vars
    /\ []((\A c \in Conns \ {1} : conn[c].sent = <<>>) => db = FreshDb(NoFile))

\* STRESS 1 has been answered with its report while the key stress:0 of
\* another connection is in the store and in the file, and a worker is in the
\* critical section of that connection's next command
C16_Witness ==
    /\ conn[1].sent = <<"STRESS 1">>
    /\ conn[1].result = Result(200, "Stress Test running for 1 ops ...")
    /\ conn[2].sent = <<"SET stress:0 \"x\"", "SET a \"1\" EX 5">>
    /\ conn[2].replies = <<"+OK">>
    /\ \E w \in Workers : worker[w].pc = "locked" /\ worker[w].task.conn = 2
    /\ db.kv_store_ = [k \in {"stress:0"} |-> "x"]
    /\ db.file.store = {<<"stress:0", "x">>}


\* ------------------------------------------------------------- JSON.UPDATE
\* an array with two objects whose id is 2, an object whose id is 1 and an
\* element that is no object
UpdArray == "[{\"id\":1,\"s\":0},{\"id\":2,\"s\":0},5,{\"id\":2}]"

UpdLines ==
    {"JSON.SET p '" \o UpdArray \o "'",
     "JSON.SET o '{\"id\":2}'",
     "JSON.UPDATE p WHERE id 2 SET s 9 t x",
     "JSON.UPDATE p WHERE id 2 SET id 3",
     "JSON.UPDATE p WHERE id 7 SET s 9",
     "JSON.UPDATE o WHERE id 2 SET s 9",
     "JSON.GET p WHERE id 2"}

UpdRecv(c) == Len(conn[c].sent) < SeqCmds /\ ClientRecv(c, UpdLines)

InitUpd == InitServer(1, 1, 0, 1)

NextUpd ==
    \/ \E c \in Conns : UpdRecv(c) \/ ClientSend(c)
    \/ WorkerStep

SpecUpd == InitUpd /\ [][NextUpd]_vars

\* the text as a JSON value when it is one, as a string otherwise
AsJson(text) == IF json_parse(text).ok THEN json_parse(text).val ELSE JStr(text)

\* the keys of an object in their order
KeysOf(item) == [i \in 1..Len(item.a) |-> item.a[i].s]

\* the value of the member g of an object
FieldOf(item, g) == item.a[CHOOSE i \in 1..Len(item.a) : item.a[i].s = g].a[1]

\* item is an object with a member f whose value is v
HasField(item, f, v) ==
    item.t = "obj" /\ \E i \in 1..Len(item.a) : item.a[i].s = f /\ item.a[i].a[1] = v

\* new is old with the fields of pairs (field, text, field, text, ...)
\* assigned: every field of pairs has the value of its last text, every other
\* member has the value it had, the members old had keep their places and the
\* new ones follow
AssignedFrom(old, new, pairs) ==
    LET n == Len(pairs) \div 2
        fields == {pairs[2 * j - 1] : j \in 1..n}
        last(g) == pairs[2 * Max({j \in 1..n : pairs[2 * j - 1] = g})]
    IN /\ new.t = "obj"
       /\ Len(new.a) >= Len(old.a)
       /\ SubSeq(KeysOf(new), 1, Len(old.a)) = KeysOf(old)
       /\ Range(KeysOf(new)) = Range(KeysOf(old)) \cup fields
       /\ Cardinality(Range(KeysOf(new))) = Len(new.a)
       /\ \A g \in fields : FieldOf(new, g) = AsJson(last(g))
       /\ \A g \in Range(KeysOf(old)) \ fields : FieldOf(new, g) = FieldOf(old, g)

\* the step in which _handle_json_update runs on a stored array: the elements
\* that are objects with the WHERE field equal to the WHERE value are assigned
\* the pairs, the others and the order are kept, the reply is the number of
\* elements assigned; on a stored document that is no array the reply is an
\* error that names WHERE and the engine is left as it was
UpdateStep ==
    \A w \in Workers :
       (worker[w].pc = "locked" /\ worker[w].task.command_str = "JSON.UPDATE"
        /\ worker'[w].pc # "locked" /\ worker[w].task.args[1] \in DOMAIN db.kv_store_)
       => LET args == worker[w].task.args
              key == args[1]
              old == json_parse(db.kv_store_[key]).val
              new == json_parse(db'.kv_store_[key]).val
              f == args[3]
              v == AsJson(args[4])
              pairs == SubSeq(args, 6, Len(args))
              hit == {i \in 1..Len(old.a) : HasField(old.a[i], f, v)}
              reply == conn'[worker[w].task.conn].result
          IN IF old.t = "arr"
             THEN /\ reply = Result(200, to_string(Cardinality(hit)))
                  /\ key \in DOMAIN db'.kv_store_
                  /\ new.t = "arr" /\ Len(new.a) = Len(old.a)
                  /\ \A i \in 1..Len(old.a) :
                        IF i \in hit THEN AssignedFrom(old.a[i], new.a[i], pairs)
                        ELSE new.a[i] = old.a[i]
             ELSE /\ reply.code = 400
                  /\ \E i \in 0..Len(reply.text) : substr(reply.text, i, 5) = "WHERE"
                  /\ db' = db

\* the elements a reply of JSON.GET shows
ShownBy(reply) == IF json_parse(reply).ok THEN json_parse(reply).val.a ELSE <<>>

\* a JSON.GET p WHERE id 2 that follows an answered JSON.UPDATE p WHERE id 2
\* of the kind given shows as many elements as the update counted, each with
\* the fields the update assigned
GetShowsUpdate(updates) ==
    \A i \in 1..(Len(conn[1].replies) - 1) :
       (conn[1].sent[i] \in updates /\ conn[1].replies[i] \notin {"0", "(nil)"}
        /\ conn[1].sent[i + 1] = "JSON.GET p WHERE id 2")
       => LET args == parse_command_line(conn[1].sent[i])
              shown == ShownBy(conn[1].replies[i + 1])
          IN /\ to_string(Len(shown)) = conn[1].replies[i]
             /\ \A j \in 1..Len(shown) :
                   \A k \in 1..((Len(args) - 6) \div 2) :
                      HasField(shown[j], args[5 + 2 * k], AsJson(args[6 + 2 * k]))

\* C17 as stated: after any answered JSON.UPDATE p WHERE id 2 SET ..., the
\* JSON.GET p WHERE id 2 that follows shows the new field values.
C17_GetAfterAnyUpdate ==
    GetShowsUpdate({"JSON.UPDATE p WHERE id 2 SET s 9 t x", "JSON.UPDATE p WHERE id 2 SET id 3"})

\* C17: JSON.UPDATE key WHERE f v SET f1 v1 ... on a stored array assigns each
\* fi (vi as JSON where it parses, as a string otherwise) in exactly the
\* elements that are objects with f equal to v, keeps the other elements and
\* the order, and replies the number of elements assigned; on a document that
\* is no array it replies an error that names WHERE and changes nothing; and
\* a JSON.GET key WHERE f v that follows shows the new field values when the
\* update has not assigned f itself.
C17_JsonUpdateWhere ==
    /\ [][UpdateStep]_vars
    /\ [](GetShowsUpdate({"JSON.UPDATE p WHERE id 2 SET s 9 t x"}))

\* the array was stored, JSON.UPDATE p WHERE id 2 SET s 9 t x assigned two
\* elements and the JSON.GET p WHERE id 2 after it has its reply
C17_Witness ==
    /\ conn[1].sent = <<"JSON.SET p '" \o UpdArray \o "'", "JSON.UPDATE p WHERE id 2 SET s 9 t x",
                        "JSON.GET p WHERE id 2">>
    /\ Len(conn[1].replies) = 3
    /\ conn[1].replies[2] = "2"
    /\ db.kv_store_["p"] = "[{\"id\":1,\"s\":0},{\"id\":2,\"s\":9,\"t\":\"x\"},5,{\"id\":2,\"s\":9,\"t\":\"x\"}]"
    /\ Len(ShownBy(conn[1].replies[3])) = 2


\* ------------------------------------------------------------- JSON.APPEND
AppLines ==
    {"JSON.SET a '[1]' EX 5",
     "JSON.SET o '{\"x\":1}'",
     "SET s \"abc\"",
     "JSON.APPEND a '{\"y\":2}'",
     "JSON.APPEND a '[3,{\"z\":4}]'",
     "JSON.APPEND a '5'",
     "JSON.APPEND a '{bad'",
     "JSON.APPEND o '{\"y\":2}'",
     "JSON.APPEND s '{\"y\":2}'",
     "JSON.APPEND m '{\"y\":2}'"}

AppRecv(c) == Len(conn[c].sent) < SeqCmds /\ ClientRecv(c, AppLines)

InitApp == InitServer(1, 1, 0, 1)

NextApp ==
    \/ \E c \in Conns : AppRecv(c) \/ ClientSend(c)
    \/ WorkerStep

SpecApp == InitApp /\ [][NextApp]_vars

\* the key holds a text that parses to an array
HoldsArray(s, key) ==
    key \in DOMAIN s.kv_store_ /\ json_parse(s.kv_store_[key]).ok
    /\ json_parse(s.kv_store_[key]).val.t = "arr"

\* C18: the step in which _handle_json_append runs. When the key holds an
\* array and the argument parses to an object, the stored array is the old
\* one with the object as its new last element; when the argument parses to
\* an array, the old one followed by the argument's elements in their order;
\* the reply is the new length. In every other case (the key is missing, the
\* stored text is no array, the argument is invalid or neither object nor
\* array) the reply is an error and the engine, with the document, its
\* deadline, the memory estimate and the dirty counter, is as it was.
C18_JsonAppend ==
    [][\A w \in Workers :
         (worker[w].pc = "locked" /\ worker[w].task.command_str = "JSON.APPEND"
          /\ worker'[w].pc # "locked")
         => LET key == worker[w].task.args[1]
                arg == json_parse(worker[w].task.args[2])
                reply == conn'[worker[w].task.conn].result
            IN IF HoldsArray(db, key) /\ arg.ok /\ arg.val.t \in {"obj", "arr"}
               THEN LET old == json_parse(db.kv_store_[key]).val.a
                        new == IF arg.val.t = "obj" THEN Append(old, arg.val)
                               ELSE old \o arg.val.a
                    IN /\ reply = Result(200, to_string(Len(new)))
                       /\ HoldsArray(db', key)
                       /\ json_parse(db'.kv_store_[key]).val.a = new
               ELSE /\ reply.code # 200 /\ reply.text # ""
                    /\ ~StartsWith(reply.text, "+") /\ ~isdigit(At(reply.text, 0))
                    /\ db' = db]_vars

\* an object and then an array were appended to the array [1] stored with a
\* deadline
C18_Witness ==
    /\ conn[1].sent = <<"JSON.SET a '[1]' EX 5", "JSON.APPEND a '{\"y\":2}'",
                        "JSON.APPEND a '[3,{\"z\":4}]'">>
    /\ conn[1].replies = <<"+OK", "2", "4">>
    /\ db.kv_store_ = [k \in {"a"} |-> "[1,{\"y\":2},3,{\"z\":4}]"]
    /\ DOMAIN db.ttl_map_ = {"a"}


\* ------------------------------------------------------------- JSON.SEARCH
\* documents under the key d: a string with fox inside a word and as a word,
\* a string with fox only inside a word, an object with fox as a key and as a
\* word of a nested string in capitals, an array of strings with fox next to
\* a digit, an underscore and itself
SearchDocs ==
    {"JSON.SET d '\"The quickfox jumps over the fox\"'",
     "JSON.SET d '\"quickfox\"'",
     "JSON.SET d '{\"fox\":\"a\",\"b\":[\"x\",{\"c\":\"A FOX.\"}],\"n\":7}'",
     "JSON.SET d '[\"fox9 fox_x\",\"foxfox fox\",\"quickfox\",\"the fox\"]'"}

SearchLines ==
    SearchDocs \cup
    {"JSON.SEARCH d \"fox\"", "JSON.SEARCH d \"FoX\"", "JSON.SEARCH d \"quickfox\"",
     "JSON.SEARCH d \"x\"", "JSON.SEARCH d \"the fox\"", "JSON.SEARCH d \"fox\" MAX 1"}

SearchRecv(c) == Len(conn[c].sent) < SeqCmds /\ ClientRecv(c, SearchLines)

InitSearch == InitServer(1, 1, 0, 1)

NextSearch ==
    \/ \E c \in Conns : SearchRecv(c) \/ ClientSend(c)
    \/ WorkerStep

SpecSearch == InitSearch /\ [][NextSearch]_vars

RECURSIVE StringsIn(_)
\* the strings that are values anywhere inside a JSON value
StringsIn(j) ==
    CASE j.t = "str" -> {j.s}
      [] j.t \in {"arr", "obj", "mem"} -> UNION {StringsIn(j.a[i]) : i \in 1..Len(j.a)}
      [] OTHER -> {}

\* a letter or a digit of ASCII
IsAlnum(c) == c # "" /\ toupper(c) \in {SubSeq(UpperChars, i, i) : i \in 1..26} \cup
                                        {"0", "1", "2", "3", "4", "5", "6", "7", "8", "9"}

\* term occurs in text at pos, letters compared without their case, with the
\* start of the text or no letter or digit before it and the end of the text
\* or no letter or digit after it
WholeWordAt(text, term, pos) ==
    /\ pos + Len(term) <= Len(text)
    /\ toupper(SubSeq(text, pos + 1, pos + Len(term))) = toupper(term)
    /\ (pos = 0 \/ ~IsAlnum(At(text, pos - 1)))
    /\ (pos + Len(term) = Len(text) \/ ~IsAlnum(At(text, pos + Len(term))))

\* some string inside the value has term as a whole word
HasWholeWord(j, term) ==
    \E text \in StringsIn(j) : \E pos \in 0..Len(text) : WholeWordAt(text, term, pos)

RECURSIVE Select(_, _)
\* the elements with term as a whole word, in their order
Select(items, term) ==
    IF items = <<>> THEN <<>>
    ELSE (IF HasWholeWord(Head(items), term) THEN <<Head(items)>> ELSE <<>>)
         \o Select(Tail(items), term)

\* C19: in the step in which _handle_json_search reads the document,
\* json_contains_word decides for the document (or, for an array, for each
\* element) exactly as the whole-word rule does: the results are the document
\* (or the elements, the first MAX of them) in which some string value holds
\* the term, letters compared without case, between the start of the string
\* or a byte that is no letter or digit and the end of the string or such a
\* byte; with no result the reply is (nil).
C19_WholeWordSearch ==
    [][\A w \in Workers :
         (worker[w].pc = "locked" /\ worker[w].task.command_str = "JSON.SEARCH"
          /\ worker[w].phase = 1 /\ worker'[w] # worker[w]
          /\ worker[w].task.args[1] \in DOMAIN db.kv_store_)
         => LET args == worker[w].task.args
                doc == json_parse(db.kv_store_[args[1]]).val
                all == IF doc.t = "arr" THEN Select(doc.a, args[2])
                       ELSE IF HasWholeWord(doc, args[2]) THEN <<doc>> ELSE <<>>
                expected == IF Len(args) = 4 /\ Len(all) > stoll(args[4]).val
                            THEN SubSeq(all, 1, stoll(args[4]).val) ELSE all
            IN IF expected = <<>>
               THEN conn'[worker[w].task.conn].result = Result(404, "(nil)")
               ELSE /\ worker'[w].phase = 2
                    /\ json_parse(worker'[w].result_value).val = JArr(expected)]_vars

\* the search for fox in the array was answered with three of its elements:
\* fox before an underscore, after foxfox and after the are whole words, fox
\* in quickfox is not
C19_Witness ==
    /\ conn[1].sent = <<"JSON.SET d '[\"fox9 fox_x\",\"foxfox fox\",\"quickfox\",\"the fox\"]'",
                        "JSON.SEARCH d \"fox\"">>
    /\ Len(conn[1].replies) = 2
    /\ ShownBy(conn[1].replies[2]) = <<JStr("fox9 fox_x"), JStr("foxfox fox"), JStr("the fox")>>


\* ------------------------------------------- the store between two commands
\* the snapshot files the process may find: none, or one a process before it
\* wrote after SET k1 "vvvvvvvv" EX 1 and SET k2 "vvvvvvvv" at time 0
StoreFiles ==
    {NoFile,
     [present |-> TRUE, damage |-> "none", store |-> {<<"k1", "vvvvvvvv">>, <<"k2", "vvvvvvvv">>},
      ttl |-> {<<"k1", MsPerSecond>>}]}

\* Under the limit LruLimit the pair of k1 (10 units) fits with the pair of
\* n (2 units) and does not fit with the pair of k2 (10 units).
StoreLines ==
    {"SET k1 \"vvvvvvvv\" EX 1", "SET k2 \"vvvvvvvv\"", "UPDATE k1 \"w\"", "GET k1",
     "DEL k1 k2", "INCR n", "CLRDB", "EXPIRE k2 1"}

StoreRecv(c) == Len(conn[c].sent) < MaxCmds /\ ClientRecv(c, StoreLines)

\* the process after the constructor and load_from_file, without a memory
\* limit (MAX_RAM_GB = 0) or with one
InitStore ==
    /\ max_memory_bytes_ \in {0, LruLimit}
    /\ \E file \in StoreFiles : \E order \in IterationOrders({p[1] : p \in file.store}) :
          db = load_from_file(FreshDb(file), order)
    /\ BATCH_PROCESSING_SIZE = 1
    /\ disk_ok = TRUE
    /\ now_ms = 0
    /\ data_mutex_ = UnlockedData
    /\ queue_mutex_ = 0
    /\ task_queue_ = <<>>
    /\ stop_all_ = FALSE
    /\ worker = StartedWorkers(1)
    /\ conn = [c \in Conns |-> IF c = 1 THEN NewConn ELSE NoConn]
    /\ bg = "top"
    /\ main_pc = "serving"

NextStore ==
    \/ \E c \in Conns : StoreRecv(c) \/ ClientSend(c)
    \/ WorkerStep
    \/ BgStep
    \/ Tick

SpecStore == InitStore /\ [][NextStore]_vars

\* no thread holds data_mutex_ exclusively
NoWriteInProgress == data_mutex_.writer = 0

\* C21: whenever no write is in progress, the memory estimate is the sum of
\* len(key) + len(value) over the pairs of the value map.
C21_MemoryEstimate ==
    NoWriteInProgress
    => db.estimated_memory_usage_ = SizeOfPairs(db.kv_store_, DOMAIN db.kv_store_)

\* the value map, the LRU lookup map and the LRU list hold the same keys, the
\* list each of them once
SameKeySets ==
    /\ DOMAIN db.kv_store_ = db.lru_map_
    /\ Range(db.lru_list_) = db.lru_map_
    /\ Len(db.lru_list_) = Cardinality(db.lru_map_)

C23_TtlKeysStored == NoWriteInProgress => DOMAIN db.ttl_map_ \subseteq DOMAIN db.kv_store_

\* k1 was set with a deadline of one second and the background manager has
\* removed it, with its deadline, after the deadline passed
C23_Witness ==
    /\ conn[1].sent = <<"SET k1 \"vvvvvvvv\" EX 1">>
    /\ conn[1].replies = <<"+OK">>
    /\ now_ms > MsPerSecond
    /\ db.file.present /\ db.file.ttl = {<<"k1", MsPerSecond>>}
    /\ db.kv_store_ = EmptyMap /\ db.ttl_map_ = EmptyMap
    /\ NoWriteInProgress


\* ------------------------------------------- the background manager's lock
\* the step in which the sleep of the background manager ends
SleepEnds == bg = "sleeping" /\ bg' # "sleeping"

\* C27: when its sleep ends the background manager takes data_mutex_ at once
\* if it is free, and otherwise goes back to the top of its loop with the
\* store, the snapshot file and the lock as they were; it sweeps and saves
\* only as the exclusive holder of the lock, and while it runs it always has
\* a step to take: it never waits for the lock.
C27_SweeperTryLock ==
    /\ [](bg # "exited" => ENABLED BgStep)
    /\ [](bg \in {"sweep", "save"} => data_mutex_ = [writer |-> BgThread, readers |-> {}])
    /\ [][SleepEnds =>
             IF data_mutex_ = UnlockedData
             THEN bg' = "sweep" /\ data_mutex_' = [writer |-> BgThread, readers |-> {}] /\ db' = db
             ELSE bg' = "top" /\ db' = db /\ data_mutex_' = data_mutex_]_vars

\* the sleep of the background manager ends while a worker holds the lock for
\* a write, with a key in the store whose deadline has passed
C27_Witness ==
    /\ bg = "sleeping"
    /\ data_mutex_.writer \in Workers
    /\ ExpiredKeys(db) # {}
    /\ ENABLED BgTryLock


\* ------------------------------------------------- one critical section each
\* the snapshot file the process finds: none, or one with the pair of k1,
\* which fits under LruLimit alone and does not fit with the pair of k2
AtomicFiles ==
    {NoFile, [present |-> TRUE, damage |-> "none", store |-> {<<"k1", "vvvvvvvv">>}, ttl |-> {}]}

\* BATCH 0 makes every write handler save the snapshot itself
AtomicLines(c) ==
    IF c = 1 THEN {"BATCH 0", "SET k2 \"vvvvvvvv\"", "UPDATE k1 \"w\""}
    ELSE {"GET k1", "DEL k1"}

\* the first connection sends up to MaxCmds frames, any other one frame
AtomicRecv(c) ==
    /\ Len(conn[c].sent) < (IF c = 1 THEN MaxCmds ELSE 1)
    /\ ClientRecv(c, AtomicLines(c))

\* the process with the memory limit LruLimit after the constructor and
\* load_from_file, two connections accepted and two workers started
InitAtomic ==
    /\ max_memory_bytes_ = LruLimit
    /\ \E file \in AtomicFiles : \E order \in IterationOrders({p[1] : p \in file.store}) :
          db = load_from_file(FreshDb(file), order)
    /\ BATCH_PROCESSING_SIZE = 1
    /\ disk_ok = TRUE
    /\ now_ms = 0
    /\ data_mutex_ = UnlockedData
    /\ queue_mutex_ = 0
    /\ task_queue_ = <<>>
    /\ stop_all_ = FALSE
    /\ worker = StartedWorkers(NumWorkers)
    /\ conn = [c \in Conns |-> NewConn]
    /\ bg = "top"
    /\ main_pc = "serving"

NextAtomic ==
    \/ \E c \in Conns : AtomicRecv(c) \/ ClientSend(c)
    \/ WorkerStep
    \/ BgStep

SpecAtomic == InitAtomic /\ [][NextAtomic]_vars

\* C24: every snapshot written holds the store as it is between two complete
\* commands: the pairs and deadlines the writing command (or sweeper tick)
\* leaves, or those it found.
C24_SnapshotBetweenCommands ==
    [][db'.file # db.file => (db'.file = Dump(db') \/ db'.file = Dump(db))]_vars

\* the step in which the worker w leaves the second block of _handle_get
GetReturns(w) ==
    /\ worker[w].pc = "locked"
    /\ worker[w].phase = 2
    /\ worker[w].task.command_str = "GET"
    /\ worker'[w].pc = "top"

\* C25: a GET that read the value of its key under the shared lock replies
\* with that value when it returns from the block under the exclusive lock,
\* also when the key was removed in between, and a key removed in between is
\* in neither the value map nor the LRU structures afterwards.
C25_GetRepliesValueRead ==
    [][\A w \in Workers :
          GetReturns(w) =>
             LET key == worker[w].task.args[1]
             IN /\ conn'[worker[w].task.conn].result = Result(200, worker[w].result_value)
                /\ key \notin DOMAIN db.kv_store_ =>
                      /\ key \notin DOMAIN db'.kv_store_
                      /\ key \notin db'.lru_map_
                      /\ key \notin Range(db'.lru_list_)]_vars


\* ------------------------------------- the sweep under foreground commands
\* the snapshot the process finds: k1 with a deadline of one second
SweepFile ==
    [present |-> TRUE, damage |-> "none", store |-> {<<"k1", "vvvvvvvv">>}, ttl |-> {<<"k1", MsPerSecond>>}]

\* commands on another key: the first block of GET under the shared lock, DEL
\* under the exclusive lock; neither changes the store when k2 is not there
SweepLines == {"GET k2", "DEL k2"}

\* a connection sends one frame
SweepRecv(c) == conn[c].sent = <<>> /\ ClientRecv(c, SweepLines)

\* the peer closes after its reply
SweepEof(c) == conn[c].sent # <<>> /\ ClientEof(c)

\* accept() returns the socket of the next client
SweepAccept(c) ==
    /\ main_pc = "serving"
    /\ conn[c].pc = "closed"
    /\ conn' = [conn EXCEPT ![c] = NewConn]
    /\ UNCHANGED <<db, max_memory_bytes_, BATCH_PROCESSING_SIZE, disk_ok, now_ms, data_mutex_,
                   queue_mutex_, task_queue_, stop_all_, worker, bg, main_pc>>

InitSweep ==
    /\ max_memory_bytes_ = LruLimit
    /\ db = load_from_file(FreshDb(SweepFile), <<"k1">>)
    /\ BATCH_PROCESSING_SIZE = 1
    /\ disk_ok = TRUE
    /\ now_ms = 0
    /\ data_mutex_ = UnlockedData
    /\ queue_mutex_ = 0
    /\ task_queue_ = <<>>
    /\ stop_all_ = FALSE
    /\ worker = StartedWorkers(1)
    /\ conn = [c \in Conns |-> IF c = 1 THEN NewConn ELSE NoConn]
    /\ bg = "top"
    /\ main_pc = "serving"

NextSweep ==
    \/ \E c \in Conns : SweepRecv(c) \/ ClientSend(c) \/ SweepEof(c) \/ SweepAccept(c)
    \/ WorkerStep
    \/ BgStep
    \/ Tick

\* Every thread of the server that can take a step takes one in the end, and
\* the clock goes on; the clients send, or do not send, as they like.
FairSweep ==
    /\ WF_vars(BgStep)
    /\ WF_vars(WorkerStep)
    /\ WF_vars(\E c \in Conns : ClientSend(c))
    /\ WF_vars(Tick)

SpecSweep == InitSweep /\ [][NextSweep]_vars /\ FairSweep

\* the deadline of the key has passed
Expired(key) == key \in DOMAIN db.ttl_map_ /\ now_ms > db.ttl_map_[key]

\* the key is in none of the value map, the TTL map and the LRU structures
Removed(key) ==
    /\ key \notin DOMAIN db.kv_store_
    /\ key \notin DOMAIN db.ttl_map_
    /\ key \notin db.lru_map_
    /\ key \notin Range(db.lru_list_)

\* C26: a key whose deadline has passed is removed from the value map, the
\* TTL map and the LRU structures in the end, whatever the clients send.
C26_ExpiryLiveness == Expired("k1") ~> Removed("k1")


\* ----------------------------------------------- the threads after the stop
\* the steps of the worker thread w
WorkerSteps(w) ==
    WorkerTop(w) \/ WorkerPred(w) \/ WorkerBlock(w) \/ WorkerWake(w) \/ WorkerRun(w) \/ WorkerBody(w)

\* Every worker thread, the background manager and every connection thread
\* that can take a step takes one in the end.
FairStop ==
    /\ \A w \in Workers : WF_vars(WorkerSteps(w))
    /\ WF_vars(BgStep)
    /\ WF_vars(\E c \in Conns : ClientSend(c))

SpecStop == InitShutdown /\ [][NextShutdown]_vars /\ FairStop

\* the step in which the worker thread w returns from _worker_function
WorkerExits(w) == worker[w].pc # "exited" /\ worker'[w].pc = "exited"

\* C28: a worker thread returns only with the stop flag set and the task
\* queue empty, and once the stop flag is set every worker thread returns.
C28_WorkerTermination ==
    /\ [][\A w \in Workers : WorkerExits(w) => (stop_all_ /\ task_queue_ = <<>>)]_vars
    /\ (stop_all_ ~> WorkersExited)


\* ------------------------------------------------ every task is answered
\* one frame from each connection: a success with an eviction and an error
\* on the first, a GET in two critical sections (or not-found) on the other
ProgressLines(c) ==
    IF c = 1 THEN {"SET k2 \"vvvvvvvv\"", "INCR k1 x"} ELSE {"GET k1"}

ProgressRecv(c) == conn[c].sent = <<>> /\ ClientRecv(c, ProgressLines(c))

NextProgress ==
    \/ \E c \in Conns : ProgressRecv(c) \/ ClientSend(c)
    \/ WorkerStep
    \/ BgStep

\* Every thread that can take a step takes one in the end; a worker thread
\* that waits in lock() for a mutex that is free again and again gets it (the
\* background manager sleeps a second between two attempts).
FairProgress ==
    /\ \A w \in Workers : SF_vars(WorkerSteps(w))
    /\ WF_vars(BgStep)
    /\ WF_vars(\E c \in Conns : ClientSend(c))

SpecProgress == InitAtomic /\ [][NextProgress]_vars /\ FairProgress

\* the worker thread w holds no lock on data_mutex_
HoldsNoLock(w) == data_mutex_.writer # w /\ w \notin data_mutex_.readers

\* C29: with the stop flag unset, a worker thread holds a lock on data_mutex_
\* only inside a critical section of a handler (every return releases it, and
\* no handler asks for the lock while it holds it); the promise of every task
\* a connection dispatched is set in the end; and every worker thread that
\* has work or waits for a lock gets back to the top of its loop or to the
\* wait for the next task.
C29_Progress ==
    /\ [](\A w \in Workers : worker[w].pc # "locked" => HoldsNoLock(w))
    /\ \A c \in Conns : (conn[c].pc = "wait") ~> (conn[c].promise_sets > 0)
    /\ \A w \in Workers : (worker[w].pc \in {"run", "locked"}) ~> (worker[w].pc \in {"top", "blocked"})

\* both connections were answered: SET k2 ran its eviction between the two
\* critical sections of GET k1
C29_Witness ==
    /\ conn[1].sent = <<"SET k2 \"vvvvvvvv\"">>
    /\ conn[1].replies = <<"+OK">>
    /\ conn[2].sent = <<"GET k1">>
    /\ conn[2].replies = <<"(nil)">>
    /\ db.file.present
    /\ task_queue_ = <<>>
    /\ \A w \in Workers : worker[w].pc = "blocked" /\ HoldsNoLock(w)


\* ------------------------------------------------ commands that reply -ERR
\* SET with an EX that is no integer, INCR with an amount or a stored value
\* that is no integer, EXPIRE with a TTL that is no integer, JSON.APPEND on a
\* value that is no JSON array, JSON.SET of a text that is no JSON, and the
\* SET that stores the value they find
FailLines ==
    {"SET k1 \"v\"", "SET k1 \"v\" EX abc", "INCR k1 x", "INCR k1", "EXPIRE k1 abc",
     "JSON.APPEND k1 '{}'", "JSON.SET k1 '{'"}

FailRecv(c) == Len(conn[c].sent) < MaxCmds /\ ClientRecv(c, FailLines)

InitFail == InitServer(1, 1, LruLimit, 1)

NextFail ==
    \/ \E c \in Conns : FailRecv(c) \/ ClientSend(c)
    \/ WorkerStep

SpecFail == InitFail /\ [][NextFail]_vars

\* the value map, the TTL map, the LRU order, the memory estimate and the
\* dirty counter
StoreOf(s) ==
    <<s.kv_store_, s.ttl_map_, s.lru_list_, s.lru_map_, s.estimated_memory_usage_,
      s.dirty_operations_>>

\* the step sets the promise of connection c to an error: status 400 or 500
RepliesError(c) ==
    /\ conn'[c].promise_sets = conn[c].promise_sets + 1
    /\ conn'[c].result.code \in {400, 500}

\* C30: a command whose reply is an error leaves the value map, the TTL map,
\* the LRU order, the memory estimate and the dirty counter as they were.
C30_ErrorLeavesStore ==
    [][\A c \in Conns : RepliesError(c) => StoreOf(db') = StoreOf(db)]_vars


\* ------------------------------------------------------ write-through saves
\* the snapshot the process finds: none, or k1 and the array j, which fit
\* under LruLimit together and do not fit with the pair of k2
ThroughFiles ==
    {NoFile,
     [present |-> TRUE, damage |-> "none", store |-> {<<"k1", "vvvvvvvv">>, <<"j", "[]">>}, ttl |-> {}]}

\* BATCH 0 and one command of each write handler
ThroughLines ==
    {"BATCH 0", "SET k2 \"vvvvvvvv\"", "SET k1 \"w\" EX 1", "UPDATE k1 \"w\"", "DEL k1", "INCR n",
     "EXPIRE k1 1", "CLRDB", "JSON.SET j '{}'", "JSON.APPEND j '{}'", "JSON.DEL j"}

ThroughRecv(c) == Len(conn[c].sent) < MaxCmds /\ ClientRecv(c, ThroughLines)

InitThrough ==
    /\ max_memory_bytes_ = LruLimit
    /\ \E file \in ThroughFiles : \E order \in IterationOrders({p[1] : p \in file.store}) :
          db = load_from_file(FreshDb(file), order)
    /\ BATCH_PROCESSING_SIZE = 1
    /\ disk_ok = TRUE
    /\ now_ms = 0
    /\ data_mutex_ = UnlockedData
    /\ queue_mutex_ = 0
    /\ task_queue_ = <<>>
    /\ stop_all_ = FALSE
    /\ worker = StartedWorkers(1)
    /\ conn = [c \in Conns |-> IF c = 1 THEN NewConn ELSE NoConn]
    /\ bg = "top"
    /\ main_pc = "serving"

NextThrough ==
    \/ \E c \in Conns : ThroughRecv(c) \/ ClientSend(c)
    \/ WorkerStep
    \/ BgStep

SpecThrough == InitThrough /\ [][NextThrough]_vars

\* the commands of the write handlers
WriteCommands ==
    {"SET", "UPDATE", "DEL", "INCR", "DECR", "EXPIRE", "JSON.SET", "JSON.UPDATE", "JSON.DEL",
     "JSON.APPEND", "CLRDB"}

\* the step in which the worker w leaves a write handler that succeeded (and,
\* for the handlers that count, did not count 0) and releases data_mutex_
WriteReturns(w) ==
    /\ worker[w].pc = "locked"
    /\ worker'[w].pc = "top"
    /\ worker[w].task.command_str \in WriteCommands
    /\ conn'[worker[w].task.conn].result.code = 200
    /\ conn'[worker[w].task.conn].result.text # "0"

\* C31: with BATCH_PROCESSING_SIZE 0, when a successful write command
\* releases the lock the snapshot file holds the value map and the TTL map
\* the command leaves, and the dirty counter is 0.
C31_WriteThrough ==
    [][\A w \in Workers :
          (WriteReturns(w) /\ BATCH_PROCESSING_SIZE = 0)
          => (db'.file = Dump(db') /\ db'.dirty_operations_ = 0)]_vars


\* ------------------------------------------------- the batch threshold
\* a batch size of 2, write-through, and writes of which one has a deadline
BatchLines ==
    {"BATCH 2", "BATCH 0", "SET k1 \"v\" EX 1", "INCR n", "DEL k1"}

BatchRecv(c) == Len(conn[c].sent) < MaxCmds /\ ClientRecv(c, BatchLines)

InitBatch == InitServer(1, 1, 0, 1)

NextBatch ==
    \/ \E c \in Conns : BatchRecv(c) \/ ClientSend(c)
    \/ WorkerStep
    \/ BgStep
    \/ Tick

SpecBatch == InitBatch /\ [][NextBatch]_vars

\* the step is one of the background manager
BgActs == bg' # bg

\* C32: the background manager goes on to the save exactly when, holding the
\* lock, it finds BATCH_PROCESSING_SIZE > 0 and the dirty counter, after the
\* sweep has counted the keys it removed, at least BATCH_PROCESSING_SIZE; the
\* save writes the store the sweep left; no other step of the background
\* manager writes the file; and no step of another thread writes the file
\* while BATCH_PROCESSING_SIZE > 0.
C32_BatchTrigger ==
    [][/\ (BgActs /\ bg = "sweep") =>
             /\ data_mutex_.writer = BgThread
             /\ db'.dirty_operations_ - db.dirty_operations_
                  = Cardinality(DOMAIN db.kv_store_ \ DOMAIN db'.kv_store_)
             /\ (bg' = "save") <=> (/\ BATCH_PROCESSING_SIZE > 0
                                    /\ db'.dirty_operations_ >= BATCH_PROCESSING_SIZE)
       /\ (BgActs /\ bg = "save") =>
             /\ data_mutex_.writer = BgThread
             /\ db'.file = Dump(db)
             /\ Dump(db') = Dump(db)
       /\ (BgActs /\ bg # "save") => db'.file = db.file
       /\ (~BgActs /\ BATCH_PROCESSING_SIZE > 0) => db'.file = db.file]_vars

\* with a batch size of 2 the SET counted one operation and was not saved;
\* the sweep of k1 counted the second and the snapshot, without k1, was written
C32_Witness ==
    /\ conn[1].sent = <<"BATCH 2", "SET k1 \"v\" EX 1">>
    /\ conn[1].replies = <<"+OK", "+OK">>
    /\ BATCH_PROCESSING_SIZE = 2
    /\ db.file = [present |-> TRUE, damage |-> "none", store |-> {}, ttl |-> {}]
    /\ db.kv_store_ = EmptyMap
    /\ db.dirty_operations_ = 0
    /\ bg = "top"


\* ------------------------------------------------- the load of any file
\* the file the process may find: none; a snapshot; a text that is no JSON
\* (or empty); a JSON text whose "store" has a value that is no string; one
\* whose "store" is a map of strings and whose "ttl" has a value that is no
\* number
LoadFiles ==
    {NoFile} \cup
    {[present |-> TRUE, damage |-> d, store |-> {<<"k1", "v">>}, ttl |-> {<<"k1", MsPerSecond>>}] :
        d \in {"none", "text", "store", "ttl"}}

LoadLines == {"GET k1", "SET k2 \"v\""}

LoadRecv(c) == Len(conn[c].sent) < MaxCmds /\ ClientRecv(c, LoadLines)

\* main after NukeKV db_engine and db_engine.load_from_file(), before the
\* first accept
InitLoad ==
    /\ max_memory_bytes_ \in {0, LruLimit}
    /\ \E file \in LoadFiles : db = load_from_file(FreshDb(file), <<"k1">>)
    /\ BATCH_PROCESSING_SIZE = 1
    /\ disk_ok = TRUE
    /\ now_ms = 0
    /\ data_mutex_ = UnlockedData
    /\ queue_mutex_ = 0
    /\ task_queue_ = <<>>
    /\ stop_all_ = FALSE
    /\ worker = StartedWorkers(1)
    /\ conn = [c \in Conns |-> NoConn]
    /\ bg = "top"
    /\ main_pc = "loaded"

\* one client connects
NextLoad ==
    \/ Accept(1) \/ LoadRecv(1) \/ ClientSend(1)
    \/ WorkerStep
    \/ BgStep

SpecLoad == InitLoad /\ [][NextLoad]_vars

\* no connection has sent a command: the file is the one load_from_file read
\* and the store is the one it left
JustLoaded == \A c \in Conns : conn[c].sent = <<>>

\* C33: after the load of a file that is missing, is no JSON, or has a "store"
\* or a "ttl" that cannot be converted, the value map, the TTL map and the LRU
\* structures are empty and the memory estimate is 0.
C33_LoadFailureStartsEmpty ==
    (JustLoaded /\ (~db.file.present \/ db.file.damage # "none"))
    => StoreOf(db) = StoreOf(FreshDb(NoFile))


\* ------------------------------------- connections that come and go
\* the frames a client may send: two commands for the pool, PING and QUIT
FlightLines == {"SET k \"v\"", "GET k", "PING", "QUIT"}

FlightRecv(c) == Len(conn[c].sent) < MaxCmds /\ ClientRecv(c, FlightLines)

\* no socket is accepted yet
InitFlight == InitServer(0, NumWorkers, 0, 1)

\* sockets are accepted, clients send frames, end their stream or are gone
\* when the reply is sent
NextFlight ==
    \/ \E c \in Conns : Accept(c) \/ FlightRecv(c) \/ ClientSend(c) \/ ClientSendFail(c) \/ ClientEof(c)
    \/ WorkerStep

SpecFlight == InitFlight /\ [][NextFlight]_vars

\* the sockets on which a handle_client thread is in its loop
OpenConns == {c \in Conns : conn[c].pc \in {"recv", "wait", "send"}}

\* the tasks in task_queue_ and the tasks the workers have taken and not finished
TasksInFlight ==
    Len(task_queue_) + Cardinality({w \in Workers : worker[w].pc \in {"run", "locked"}})

\* C34: every connection has at most one task that is queued or held by a
\* worker, and only while its thread waits in future.get(); the tasks queued
\* or held by workers are never more than the open connections.
C34_OneInFlight ==
    /\ \A c \in Conns : TasksOf(c) <= 1 /\ (TasksOf(c) = 1 => conn[c].pc = "wait")
    /\ TasksInFlight = Cardinality({c \in Conns : TasksOf(c) = 1})
    /\ TasksInFlight <= Cardinality(OpenConns)

\* both connections are open, the task of one is held by a worker and the
\* task of the other is queued
C34_Witness ==
    /\ OpenConns = Conns
    /\ Len(task_queue_) = 1
    /\ \E w \in Workers : worker[w].pc = "locked" /\ worker[w].task.conn # task_queue_[1].conn


\* --------------------------------------------------- the handlers that read
\* the snapshot the process finds: k1 with a deadline, a JSON document, and
\* with a store of 11 units of the LruLimit
ReadFile ==
    [present |-> TRUE, damage |-> "none", store |-> {<<"k1", "v">>, <<"d", "[\"fox\"]">>},
     ttl |-> {<<"k1", MsPerSecond>>}]

\* the first connection reads; the second writes: the SET, of 8 units, makes
\* _enforce_memory_limit evict under the limit LruLimit
ReadLines(c) ==
    IF c = 1 THEN {"GET k1", "GET d", "TTL k1", "SIMILAR k", "STATS", "JSON.GET d",
                   "JSON.SEARCH d \"fox\"", "GET", "JSON.SEARCH d"}
    ELSE {"SET k2 \"vvvvvv\"", "DEL k1"}

\* the first connection sends up to MaxCmds frames, any other one frame
ReadRecv(c) ==
    /\ Len(conn[c].sent) < (IF c = 1 THEN MaxCmds ELSE 1)
    /\ ClientRecv(c, ReadLines(c))

\* the process after the constructor and load_from_file, started before or
\* after the deadline of k1, without a memory limit or with one
InitRead ==
    /\ max_memory_bytes_ \in {0, LruLimit}
    /\ now_ms \in {0, 2 * MsPerSecond}
    /\ \E order \in IterationOrders({p[1] : p \in ReadFile.store}) :
          db = load_from_file(FreshDb(ReadFile), order)
    /\ BATCH_PROCESSING_SIZE = 1
    /\ disk_ok = TRUE
    /\ data_mutex_ = UnlockedData
    /\ queue_mutex_ = 0
    /\ task_queue_ = <<>>
    /\ stop_all_ = FALSE
    /\ worker = StartedWorkers(NumWorkers)
    /\ conn = [c \in Conns |-> NewConn]
    /\ bg = "top"
    /\ main_pc = "serving"

NextRead ==
    \/ \E c \in Conns : ReadRecv(c) \/ ClientSend(c)
    \/ WorkerStep

SpecRead == InitRead /\ [][NextRead]_vars

ReadCommands == {"GET", "TTL", "SIMILAR", "STATS", "JSON.GET", "JSON.SEARCH"}

\* a step of the worker w inside the handler of a reading command
ReaderSteps(w) ==
    /\ worker[w].pc \in {"run", "locked"}
    /\ worker[w].task.command_str \in ReadCommands
    /\ worker'[w] # worker[w]

\* the list after _update_lru(key) under a memory limit
Promoted(list, key) == <<key>> \o ListErase(list, key)

\* C35: no step of GET, TTL, SIMILAR, STATS, JSON.GET or JSON.SEARCH changes
\* the value map, the TTL map, the memory estimate, the dirty counter or the
\* snapshot file, and none evicts: the keys of the LRU structures stay the
\* same, and the LRU list is left as it was or with the key read moved to the
\* front.
C35_ReadersDoNotMutate ==
    [][\A w \in Workers : ReaderSteps(w) =>
          /\ db'.kv_store_ = db.kv_store_
          /\ db'.ttl_map_ = db.ttl_map_
          /\ db'.estimated_memory_usage_ = db.estimated_memory_usage_
          /\ db'.dirty_operations_ = db.dirty_operations_
          /\ db'.file = db.file
          /\ db'.lru_map_ = db.lru_map_
          /\ \/ db'.lru_list_ = db.lru_list_
             \/ /\ worker[w].task.args # <<>>
                /\ worker[w].task.args[1] \in DOMAIN db.kv_store_
                /\ db'.lru_list_ = Promoted(db.lru_list_, worker[w].task.args[1])]_vars

\* under the memory limit a GET of d and then a GET of k1 were answered, and
\* k1 is at the front of the LRU list, before d
C35_Witness ==
    /\ max_memory_bytes_ = LruLimit
    /\ conn[1].sent = <<"GET d", "GET k1">>
    /\ conn[1].replies = <<"[\"fox\"]", "v">>
    /\ db.lru_list_ = <<"k1", "d">>


\* ------------------------------------------------------------------ UPDATE
\* Under the limit LruLimit the pair of k1 with the long value (12 units) fits
\* alone and does not fit with the pair of k2 (8 units).
ReplaceLines ==
    {"SET k1 \"v\" EX 1", "SET k2 \"vvvvvv\"", "UPDATE k1 \"vvvvvvvvvv\"", "UPDATE k1 \"w\"",
     "UPDATE k2 \"w\"", "DEL k1"}

ReplaceRecv(c) == Len(conn[c].sent) < SeqCmds /\ ClientRecv(c, ReplaceLines)

InitReplace == \E maxmem \in {0, LruLimit} : InitServer(1, 1, maxmem, 1)

NextReplace ==
    \/ \E c \in Conns : ReplaceRecv(c) \/ ClientSend(c)
    \/ WorkerStep

SpecReplace == InitReplace /\ [][NextReplace]_vars

\* the step in which the worker w runs the critical section of cmd and returns
HandlerReturns(w, cmd) ==
    /\ worker[w].pc = "locked"
    /\ worker[w].task.command_str = cmd
    /\ worker'[w].pc = "top"

\* the entry of key in ttl_map_: none, or its deadline
TtlEntry(s, key) == IF key \in DOMAIN s.ttl_map_ THEN <<s.ttl_map_[key]>> ELSE <<>>

\* what UPDATE key value leaves of a store s that had the key
Updated(s, t, key, value) ==
    /\ key \in DOMAIN t.kv_store_
    /\ t.kv_store_[key] = value
    /\ max_memory_bytes_ > 0 => (t.lru_list_ # <<>> /\ Head(t.lru_list_) = key)
    /\ t.dirty_operations_ = s.dirty_operations_ + 1
    /\ TtlEntry(t, key) = TtlEntry(s, key)

\* C36: UPDATE k v on an absent k replies not-found and leaves the store as
\* it was; on a present k it leaves k with the value v, at the front of the
\* LRU list, the dirty counter one higher and the TTL entry of k as it was.
C36_Update ==
    [][\A w \in Workers : HandlerReturns(w, "UPDATE") =>
          LET key == worker[w].task.args[1]
              res == conn'[worker[w].task.conn].result
          IN IF key \notin DOMAIN db.kv_store_
             THEN res.code = 404 /\ StoreOf(db') = StoreOf(db)
             ELSE Updated(db, db', key, worker[w].task.args[2])]_vars


\* ---------------------------------------------------- SET and the deadline
\* Under the limit LruLimit the pair of k1 (3 units) does not fit with the
\* pair of k2 (14 units).
DeadlineLines ==
    {"SET k1 \"v\"", "SET k1 \"v\" EX 1", "SET k1 \"v\" EX 2", "SET k2 \"vvvvvvvvvvvv\"", "TTL k1"}

DeadlineRecv(c) == Len(conn[c].sent) < SeqCmds /\ ClientRecv(c, DeadlineLines)

InitDeadline == \E maxmem \in {0, LruLimit} : InitServer(1, 1, maxmem, 1)

NextDeadline ==
    \/ \E c \in Conns : DeadlineRecv(c) \/ ClientSend(c)
    \/ WorkerStep
    \/ BgStep
    \/ Tick

SpecDeadline == InitDeadline /\ [][NextDeadline]_vars

\* the step in which the worker w returns +OK from _handle_set
SetSucceeds(w) ==
    /\ HandlerReturns(w, "SET")
    /\ conn'[worker[w].task.conn].result.code = 200

\* C37: a SET k v that succeeds leaves k without an entry in the TTL map, so
\* that TTL k would reply -1, and the background manager removes no key that
\* has no entry in the TTL map; a SET k v EX s that succeeds leaves k with the
\* deadline of the time of the SET plus s seconds.
C37_SetAndTtl ==
    [][/\ \A w \in Workers : SetSucceeds(w) =>
             LET args == worker[w].task.args
             IN IF Len(args) = 2
                THEN /\ args[1] \notin DOMAIN db'.ttl_map_
                     /\ _handle_ttl(db', <<args[1]>>).res.text = "-1"
                ELSE TtlEntry(db', args[1]) = <<now_ms + stoll(args[4]).val * MsPerSecond>>
       /\ bg' # bg => \A key \in DOMAIN db.kv_store_ \ DOMAIN db.ttl_map_ :
                         key \in DOMAIN db'.kv_store_]_vars


\* ------------------------------------------------------------------ EXPIRE
ExpireLines ==
    {"SET k1 \"v\"", "SET k1 \"v\" EX 1", "SET k2 \"w\" EX 2", "EXPIRE k1 2", "EXPIRE k1 0",
     "EXPIRE k1 -1", "EXPIRE k3 1", "EXPIRE k1 x", "BATCH 0"}

ExpireRecv(c) == Len(conn[c].sent) < SeqCmds /\ ClientRecv(c, ExpireLines)

InitExpire == \E maxmem \in {0, LruLimit} : InitServer(1, 1, maxmem, 1)

NextExpire ==
    \/ \E c \in Conns : ExpireRecv(c) \/ ClientSend(c)
    \/ WorkerStep
    \/ Tick

SpecExpire == InitExpire /\ [][NextExpire]_vars

\* the store without the TTL entry of key, without the dirty counter and
\* without the snapshot file
BesideTtlOf(s, key) ==
    <<s.kv_store_, MapErase(s.ttl_map_, key), s.lru_list_, s.lru_map_, s.estimated_memory_usage_>>

\* C38: EXPIRE k s on an absent k fails and leaves the store as it was; on a
\* present k it removes the TTL entry of k when s <= 0 and sets the deadline
\* to now plus s seconds when s > 0; it never changes a value, the memory
\* estimate, the LRU order or the TTL entry of another key.
C38_Expire ==
    [][\A w \in Workers : (HandlerReturns(w, "EXPIRE") /\ Len(worker[w].task.args) = 2) =>
          LET key == worker[w].task.args[1]
              ttl_s == stoll(worker[w].task.args[2])
              res == conn'[worker[w].task.conn].result
          IN /\ BesideTtlOf(db', key) = BesideTtlOf(db, key)
             /\ IF key \notin DOMAIN db.kv_store_
                THEN res.code = 404 /\ StoreOf(db') = StoreOf(db) /\ db'.file = db.file
                ELSE IF ~ttl_s.ok
                THEN res.code = 400 /\ StoreOf(db') = StoreOf(db) /\ db'.file = db.file
                ELSE /\ res.code = 200
                     /\ TtlEntry(db', key) = IF ttl_s.val <= 0 THEN <<>>
                                             ELSE <<now_ms + ttl_s.val * MsPerSecond>>]_vars

\* k1, set with a deadline, and k2 with another; EXPIRE k1 0 has removed the
\* deadline of k1 and left k2's
C38_Witness ==
    /\ conn[1].sent = <<"SET k1 \"v\" EX 1", "SET k2 \"w\" EX 2", "EXPIRE k1 0">>
    /\ conn[1].replies = <<"+OK", "+OK", "+OK">>
    /\ DOMAIN db.kv_store_ = {"k1", "k2"}
    /\ DOMAIN db.ttl_map_ = {"k2"}


\* ------------------------------------------------------------ PING and QUIT
PingLines == {"SET k \"v\"", "PING", "ping", "QUIT"}

PingRecv(c) == Len(conn[c].sent) < MaxCmds /\ ClientRecv(c, PingLines)

\* two connections and one worker
InitPing == InitServer(2, 1, 0, 1)

NextPing ==
    \/ \E c \in Conns : PingRecv(c) \/ ClientSend(c)
    \/ WorkerStep

SpecPing == InitPing /\ [][NextPing]_vars

\* the step in which the thread of connection c reads a frame with the command cmd
Receives(c, cmd) ==
    /\ Len(conn'[c].sent) = Len(conn[c].sent) + 1
    /\ toupper(parse_command_line(conn'[c].sent[Len(conn'[c].sent)])[1]) = cmd

\* every worker holds a task
AllWorkersBusy == \A w \in Workers : worker[w].pc \in {"none", "run", "locked"}

====
